---------------------------- MODULE Spec2Model ----------------------------
(***************************************************************************)
(* A model of the relay breadboard assistant (Lens Studio / Spectacles):   *)
(*   CircuitTopologyAnalyzer  (src/unnamed/part_000)                       *)
(*   BreadboardAROverlay      (src/unnamed/part_001, lines 1-904)          *)
(*   BreadboardDepthMapper    (src/unnamed/part_001, lines 906-1319)       *)
(*   BreadboardAssistant      (src/unnamed/part_001, lines 1321-1708)      *)
(*   BreadboardUIBridge       (src/unnamed/part_002)                       *)
(*   ComponentDetector        (src/unnamed/part_003)                       *)
(* Every component is a state machine of its own; a specification drives   *)
(* one component's operations and leaves the variables of the others       *)
(* alone.  The bridge calls into the assistant and the overlay, so its      *)
(* specification moves all three.                                          *)
(***************************************************************************)
EXTENDS Integers, Sequences, FiniteSets, TLC

(***************************************************************************)
(* JavaScript numbers.  A number is a binary floating point value          *)
(* <<m, e>> = m * 2^e with m odd (or <<0, 0>> for zero), the mantissa      *)
(* rounded to FloatBits bits, round-to-nearest, ties to even, after every  *)
(* arithmetic operation, as IEEE 754 does.  The program's numbers are      *)
(* doubles (53 bits); the model keeps the rounding and narrows the         *)
(* mantissa so that the arithmetic fits TLC's integers.  The exponent      *)
(* range is not bounded (no overflow to Infinity, no subnormals).          *)
(* NaN is the one value <<0, 1>>, which no operation on numbers yields.    *)
(***************************************************************************)
FloatBits == 12

NaN == <<0, 1>>

IsNaN(a) == a = NaN

Abs(n) == IF n < 0 THEN -n ELSE n

Sign(n) == IF n < 0 THEN -1 ELSE IF n = 0 THEN 0 ELSE 1

MinInt(a, b) == IF a <= b THEN a ELSE b

Pow2(k) == IF k <= 0 THEN 1 ELSE 2 ^ k

Pow10(k) == IF k <= 0 THEN 1 ELSE 10 ^ k

\* The number of bits of n >= 0.
RECURSIVE BitLen(_)
BitLen(n) ==
    IF n >= 65536 THEN 16 + BitLen(n \div 65536)
    ELSE IF n >= 256 THEN 8 + BitLen(n \div 256)
    ELSE IF n >= 16 THEN 4 + BitLen(n \div 16)
    ELSE IF n >= 4 THEN 2 + BitLen(n \div 4)
    ELSE IF n >= 2 THEN 2
    ELSE n

\* The canonical form of m * 2^e: the mantissa odd, zero as <<0, 0>>.
RECURSIVE Norm(_, _)
Norm(m, e) ==
    IF m = 0 THEN <<0, 0>>
    ELSE IF m % 256 = 0 THEN Norm(m \div 256, e + 8)
    ELSE IF m % 16 = 0 THEN Norm(m \div 16, e + 4)
    ELSE IF m % 2 = 0 THEN Norm(m \div 2, e + 1)
    ELSE <<m, e>>

\* m * 2^e rounded to FloatBits significant bits, ties to even.
RoundUp(q, r, half) == IF r > half \/ (r = half /\ q % 2 = 1) THEN q + 1 ELSE q

RoundBits(m, e, a, k) ==
    IF k <= 0 THEN Norm(m, e)
    ELSE Norm(Sign(m) * RoundUp(a \div Pow2(k), a % Pow2(k), Pow2(k - 1)), e + k)

RoundP(m, e) == RoundBits(m, e, Abs(m), BitLen(Abs(m)) - FloatBits)

FromInt(n) == RoundP(n, 0)

FNeg(a) == IF IsNaN(a) THEN NaN ELSE <<-a[1], a[2]>>

FMul(a, b) ==
    IF IsNaN(a) \/ IsNaN(b) THEN NaN
    ELSE RoundP(a[1] * b[1], a[2] + b[2])

\* hi + lo for hi[2] >= lo[2], both nonzero numbers.
AlignedSum(hi, lo) ==
    IF BitLen(Abs(hi[1])) + (hi[2] - lo[2]) > 30 THEN hi
    ELSE RoundP(hi[1] * Pow2(hi[2] - lo[2]) + lo[1], lo[2])

\* a + b.  When the operands are so far apart that the smaller one lies
\* below a quarter of the larger one's last place, the sum rounds to the
\* larger one.
FAdd(a, b) ==
    IF IsNaN(a) \/ IsNaN(b) THEN NaN
    ELSE IF a[1] = 0 THEN b
    ELSE IF b[1] = 0 THEN a
    ELSE IF a[2] >= b[2] THEN AlignedSum(a, b) ELSE AlignedSum(b, a)

FSub(a, b) == FAdd(a, FNeg(b))

\* sg * na / nb * 2^e with the dividend shifted left by s bits: the integer
\* quotient followed by a sticky bit for the remainder, then rounded.
Quotient(sg, na, nb, s, e) ==
    RoundP(sg * (2 * ((na * Pow2(s)) \div nb)
                   + (IF (na * Pow2(s)) % nb = 0 THEN 0 ELSE 1)),
           e - s - 1)

\* a / b for b # 0: the quotient to 2 * FloatBits + 2 bits with a sticky
\* bit for the remainder, then rounded.
FDiv(a, b) ==
    IF IsNaN(a) \/ IsNaN(b) \/ b[1] = 0 THEN NaN
    ELSE IF a[1] = 0 THEN <<0, 0>>
    ELSE Quotient(Sign(a[1]) * Sign(b[1]), Abs(a[1]), Abs(b[1]),
                  2 * FloatBits + 2 - BitLen(Abs(a[1])), a[2] - b[2])

\* Comparisons; every comparison with NaN is false, as in JavaScript.
FLt(a, b) == ~IsNaN(a) /\ ~IsNaN(b) /\ FSub(a, b)[1] < 0

FLe(a, b) == ~IsNaN(a) /\ ~IsNaN(b) /\ FSub(a, b)[1] <= 0

FGt(a, b) == FLt(b, a)

FGe(a, b) == FLe(b, a)

FAbs(a) == IF IsNaN(a) THEN NaN ELSE <<Abs(a[1]), a[2]>>

FMin(a, b) == IF IsNaN(a) \/ IsNaN(b) THEN NaN ELSE IF FLe(a, b) THEN a ELSE b

FMax(a, b) == IF IsNaN(a) \/ IsNaN(b) THEN NaN ELSE IF FLe(a, b) THEN b ELSE a

\* The number a decimal literal n / 10^f denotes (0.7 is Dec(7, 1)).
Dec(n, f) == FDiv(FromInt(n), FromInt(Pow10(f)))

\* Exact scaling by a power of two (no rounding).
Scale2(a, k) == IF IsNaN(a) \/ a[1] = 0 THEN a ELSE <<a[1], a[2] + k>>


(***************************************************************************)
(* JavaScript strings, as sequences of characters.  "OMEGA" and "omega"    *)
(* stand for the one-character strings U+03A9 and U+03C9, "+-" for U+00B1. *)
(***************************************************************************)
Range(seq) == {seq[i] : i \in DOMAIN seq}

Digits == {"0", "1", "2", "3", "4", "5", "6", "7", "8", "9"}

DigitVal(c) ==
    CASE c = "0" -> 0 [] c = "1" -> 1 [] c = "2" -> 2 [] c = "3" -> 3
      [] c = "4" -> 4 [] c = "5" -> 5 [] c = "6" -> 6 [] c = "7" -> 7
      [] c = "8" -> 8 [] c = "9" -> 9

\* String.prototype.toLowerCase, character by character.
LowerChar(c) ==
    CASE c = "K" -> "k" [] c = "M" -> "m" [] c = "O" -> "o" [] c = "H" -> "h"
      [] c = "A" -> "a" [] c = "B" -> "b" [] c = "C" -> "c"
      [] c = "OMEGA" -> "omega"
      [] OTHER -> c

ToLowerCase(s) == [i \in 1..Len(s) |-> LowerChar(s[i])]

\* s.replace(/\s/g, '')
StripWhitespace(s) == SelectSeq(s, LAMBDA c : c # " ")

\* s.includes(sub)
Includes(s, sub) ==
    \E i \in 1..(Len(s) - Len(sub) + 1) : SubSeq(s, i, i + Len(sub) - 1) = sub

\* s.replace(c, ''): the first occurrence of the character c removed.
RemoveFirst(s, c) ==
    IF ~Includes(s, <<c>>) THEN s
    ELSE LET i == CHOOSE j \in 1..Len(s) :
                     s[j] = c /\ \A k \in 1..(j - 1) : s[k] # c
         IN  SubSeq(s, 1, i - 1) \o SubSeq(s, i + 1, Len(s))

\* s.replace(/[...]/g, ''): every character of the class removed.
RemoveClass(s, class) == SelectSeq(s, LAMBDA c : c \notin class)

\* The length of the longest prefix of s made of digits.
RECURSIVE DigitPrefixLen(_)
DigitPrefixLen(s) ==
    IF s = <<>> \/ Head(s) \notin Digits THEN 0
    ELSE 1 + DigitPrefixLen(Tail(s))

\* The natural number a sequence of digits denotes.
RECURSIVE DigitsToInt(_)
DigitsToInt(s) ==
    IF s = <<>> THEN 0
    ELSE 10 * DigitsToInt(SubSeq(s, 1, Len(s) - 1)) + DigitVal(s[Len(s)])

WithSign(neg, v) == IF neg THEN FNeg(v) ELSE v

\* parseFloat: an optional sign, digits, an optional fraction; what follows
\* is ignored; NaN when there is no digit.  (The strings of the model hold
\* no exponent part.)
ParseFloat(s) ==
    LET signed == s # <<>> /\ Head(s) \in {"-", "+"}
        neg    == s # <<>> /\ Head(s) = "-"
        body   == IF signed THEN Tail(s) ELSE s
        il     == DigitPrefixLen(body)
        rest   == SubSeq(body, il + 1, Len(body))
        fl     == IF rest # <<>> /\ Head(rest) = "." THEN DigitPrefixLen(Tail(rest))
                  ELSE 0
        ds     == SubSeq(body, 1, il) \o SubSeq(rest, 2, fl + 1)
    IN  IF il + fl = 0 THEN NaN
        ELSE WithSign(neg, Dec(DigitsToInt(ds), fl))


(***************************************************************************)
(* The state of the program: the fields of its components.                 *)
(***************************************************************************)
\* CircuitTopologyAnalyzer
VARIABLES
    enableRealTimeAnalysis,   \* @input, fixed when the component is set up
    enableGainCalculation,    \* @input, fixed when the component is set up
    detectedComponents,       \* DetectedComponent[]
    detectedConnections,      \* CircuitConnection[]
    currentAnalysis,          \* CircuitAnalysisResult | null
    analysisHistory,          \* CircuitAnalysisResult[]
    analyzerEvents,           \* the events the last operation invoked, in order
    analyzerOps               \* operations performed so far (bounds the model)

analyzerVars ==
    <<enableRealTimeAnalysis, enableGainCalculation, detectedComponents,
      detectedConnections, currentAnalysis, analysisHistory, analyzerEvents,
      analyzerOps>>

\* ComponentDetector
VARIABLES
    enableColorCodeReading,   \* @input, fixed when the component is set up
    resistorDetected,         \* payload of the last resistorDetectedEvent, or null
    detectionHistoryLength,   \* detectionHistory.length
    detections                \* detectComponent calls so far (bounds the model)

detectorVars ==
    <<enableColorCodeReading, resistorDetected, detectionHistoryLength, detections>>

\* BreadboardAROverlay
VARIABLES
    highlightMethod,   \* @input, fixed when the component is set up
    activeOverlays,    \* the keys of the Map activeOverlays, in insertion order
    overlayCounter,
    colorPresets,      \* Map<string, vec4>; the vec4 objects are mutable
    elements,          \* id -> AROverlayElement, every element a map entry or a tween holds
    tweens,            \* id -> the tweens running on the element
    overlayEvents,     \* overlayCreatedEvent / overlayRemovedEvent invoked by the last step
    colorRequested,    \* id -> the colour key its creator was called with (history)
    clearing,          \* the last clearAllOverlays call and what followed it (history)
    overlayCall,       \* what the last step was: a removeOverlay call and what it
                       \* returned, a clearAllOverlays call, a completed fade-out
    overlayOps         \* calls made so far (bounds the model)

overlayVars ==
    <<highlightMethod, activeOverlays, overlayCounter, colorPresets, elements,
      tweens, overlayEvents, colorRequested, clearing, overlayCall, overlayOps>>

\* BreadboardAssistant
VARIABLES
    haveVideoInput,    \* @input
    sessionCount,      \* sessions opened by Gemini.liveConnect(); GeminiLive is the last
    micRecording,      \* microphoneRecorder is recording
    videoRecording     \* videoController is recording

assistantVars == <<haveVideoInput, sessionCount, micRecording, videoRecording>>

\* The Gemini Live sessions of BreadboardAssistant; session i is the i-th
\* websocket returned by Gemini.liveConnect().
VARIABLES
    sessionOpen,           \* session -> its onOpen event was delivered
    sessionTraffic,        \* session -> the messages sent on it and received from it, in order
    completedTextDisplay,  \* session -> the local of that name its onMessage listener closes over
    chunksSinceTurn,       \* session -> text updates emitted since its start or its last
                           \*            message with turnComplete (history)
    audioListeners,        \* listeners setupInputs added to audioProcessor.onAudioChunkReady
    videoListeners,        \* listeners setupInputs added to videoController.onEncodedFrame
    sessionCall,           \* the last server content delivered and the text updates it emitted
    sessionOps             \* session events delivered so far (bounds the model)

sessionVars ==
    <<sessionOpen, sessionTraffic, completedTextDisplay, chunksSinceTurn,
      audioListeners, videoListeners, sessionCall, sessionOps>>

\* BreadboardUIBridge
VARIABLES
    showComponentLabels,      \* @input
    showConnectionLines,      \* @input
    currentUIState,
    isAnalysisActive,
    detectedComponentsCount,
    circuitTopologyComplete,
    hasPressedButtonOnce,
    revertTimeout,            \* "null", or the timer's handle: "pending" / "fired"
    hintTextEnabled,          \* hintText.sceneObject.enabled
    hintText,                 \* hintText.text
    statusText,               \* statusText.text
    statusTweens,             \* texts of the alpha tweens of updateStatusText still to complete
    bridgeEvents,             \* analysisCompletedEvent invoked by the last step
    pinches,                  \* pinches of the start/stop button so far (history)
    bridgeOps                 \* events delivered to the bridge so far (bounds the model)

bridgeVars ==
    <<showComponentLabels, showConnectionLines, currentUIState, isAnalysisActive,
      detectedComponentsCount, circuitTopologyComplete, hasPressedButtonOnce,
      revertTimeout, hintTextEnabled, hintText, statusText, statusTweens,
      bridgeEvents, pinches, bridgeOps>>

\* BreadboardDepthMapper
VARIABLES
    enablePositionSmoothing,  \* @input
    smoothingFactor,          \* @input
    isDepthAPIEnabled,
    depthSystem,              \* TRUE when a depth system was found, FALSE for null
    calibrationData,
    positionHistory,          \* Map<string, vec3[]>: key <<x, y>> -> positions
    mappedPositions,          \* key -> every unsmoothed position since the last clear (history)
    mapperCall,               \* the last call of the mapper and what it returned
    reliableReadings,         \* depth readings used so far (bounds the model)
    mapperCalls               \* calls made so far (bounds the model)

mapperVars ==
    <<enablePositionSmoothing, smoothingFactor, isDepthAPIEnabled, depthSystem,
      calibrationData, positionHistory, mappedPositions, mapperCall,
      reliableReadings, mapperCalls>>

vars ==
    <<analyzerVars, detectorVars, overlayVars, assistantVars, sessionVars, bridgeVars,
      mapperVars>>

\* What the operations of one component leave alone.
analyzerFrame ==
    <<detectorVars, overlayVars, assistantVars, sessionVars, bridgeVars, mapperVars>>

detectorFrame ==
    <<analyzerVars, overlayVars, assistantVars, sessionVars, bridgeVars, mapperVars>>

overlayFrame ==
    <<analyzerVars, detectorVars, assistantVars, sessionVars, bridgeVars, mapperVars>>

bridgeFrame == <<analyzerVars, detectorVars, mapperVars>>

mapperFrame ==
    <<analyzerVars, detectorVars, overlayVars, assistantVars, sessionVars, bridgeVars>>

sessionFrame == <<analyzerVars, detectorVars, overlayVars, bridgeVars, mapperVars>>

(***************************************************************************)
(* CircuitTopologyAnalyzer (src/unnamed/part_000).                         *)
(* A DetectedComponent is a record [type, position, value]; value is a     *)
(* string, <<>> when the component carries none (undefined and "" are both *)
(* falsy).  An optional number (gain) is <<>> when undefined.  A nullable  *)
(* object (currentAnalysis) is <<>> for null and <<r>> for the object r.   *)
(***************************************************************************)
Undefined == <<>>

Null == <<>>

\* private analysisConfidenceThreshold: number = 0.7
analysisConfidenceThreshold == Dec(7, 1)

\* if (this.analysisHistory.length > 10)
MaxAnalysisHistory == 10

\* Operations per behaviour of the analyzer.
MaxAnalyzerOps == 3

Resistors(components) == SelectSeq(components, LAMBDA c : c.type = "resistor")

OpAmps(components) == SelectSeq(components, LAMBDA c : c.type = "op_amp")

\* detectCircuitType with the inverting test placed before the non-inverting one.
DetectCircuitTypeInvertingFirst(components) ==
    LET resistors == Resistors(components)
        opAmps    == OpAmps(components)
    IN  IF Len(resistors) >= 2 /\ Len(opAmps) >= 1 THEN "inverting_op_amp"
        ELSE IF Len(resistors) >= 2 /\ Len(opAmps) = 0 THEN "voltage_divider"
        ELSE "unknown"

DetectCircuitType(components) ==
    LET resistors == Resistors(components)
        opAmps    == OpAmps(components)
    IN  IF Len(resistors) >= 2 /\ Len(opAmps) >= 1 THEN "non_inverting_op_amp"
        ELSE IF Len(resistors) >= 2 /\ Len(opAmps) >= 1 THEN "inverting_op_amp"
        ELSE IF Len(resistors) >= 2 /\ Len(opAmps) = 0 THEN "voltage_divider"
        ELSE "unknown"

ParseCleanValue(cleanValue) ==
        IF Includes(cleanValue, <<"k">>)
        THEN FMul(ParseFloat(RemoveFirst(cleanValue, "k")), FromInt(1000))
        ELSE IF Includes(cleanValue, <<"m">>)
        THEN FMul(ParseFloat(RemoveFirst(cleanValue, "m")), FromInt(1000000))
        ELSE IF Includes(cleanValue, <<"omega">>) \/ Includes(cleanValue, <<"o", "h", "m">>)
        THEN ParseFloat(RemoveClass(cleanValue, {"omega", "o", "h", "m"}))
        ELSE ParseFloat(cleanValue)

ParseResistorValue(value) == ParseCleanValue(StripWhitespace(ToLowerCase(value)))

\* calculateNonInvertingGain with the two resistors exchanged.
\* The body of calculateNonInvertingGain once r1 and r2 are parsed.
NonInvertingGainOf(r1, r2) ==
    IF FGt(r1, FromInt(0)) /\ FGt(r2, FromInt(0))
    THEN FAdd(FromInt(1), FDiv(r2, r1))
    ELSE FromInt(1)

CalculateNonInvertingGainSwapped(inputResistorValue, feedbackResistorValue) ==
    NonInvertingGainOf(ParseResistorValue(feedbackResistorValue),
                       ParseResistorValue(inputResistorValue))

CalculateNonInvertingGain(inputResistorValue, feedbackResistorValue) ==
    NonInvertingGainOf(ParseResistorValue(inputResistorValue),
                       ParseResistorValue(feedbackResistorValue))

\* The body of calculateInvertingGain once r1 and r2 are parsed.
InvertingGainOf(r1, r2) ==
    IF FGt(r1, FromInt(0)) /\ FGt(r2, FromInt(0))
    THEN FNeg(FDiv(r2, r1))
    ELSE FromInt(-1)

CalculateInvertingGain(inputResistorValue, feedbackResistorValue) ==
    InvertingGainOf(ParseResistorValue(inputResistorValue),
                    ParseResistorValue(feedbackResistorValue))

\* The body of calculateVoltageDividerGain once r1 and r2 are parsed.
VoltageDividerGainOf(r1, r2) ==
    IF FGt(r1, FromInt(0)) /\ FGt(r2, FromInt(0))
    THEN FDiv(r2, FAdd(r1, r2))
    ELSE Dec(5, 1)

CalculateVoltageDividerGain(r1Value, r2Value) ==
    VoltageDividerGainOf(ParseResistorValue(r1Value), ParseResistorValue(r2Value))

CalculateOpAmpConnections(inputResistor, feedbackResistor, opAmp) ==
    << [fromComponent |-> inputResistor, toComponent |-> opAmp,
        connectionType |-> "input", fromPin |-> "output", toPin |-> "IN+",
        confidence |-> Dec(9, 1)],
       [fromComponent |-> feedbackResistor, toComponent |-> opAmp,
        connectionType |-> "feedback", fromPin |-> "input", toPin |-> "IN+",
        confidence |-> Dec(9, 1)],
       [fromComponent |-> opAmp, toComponent |-> feedbackResistor,
        connectionType |-> "output", fromPin |-> "OUT", toPin |-> "output",
        confidence |-> Dec(9, 1)] >>

\* if (condition) score += amount
AddScore(score, condition, amount) ==
    IF condition THEN FAdd(score, amount) ELSE score

CalculateOpAmpCompleteness(result) ==
    AddScore(AddScore(AddScore(FromInt(0),
                               Len(Resistors(result.components)) >= 2, Dec(3, 1)),
                      Len(OpAmps(result.components)) >= 1, Dec(3, 1)),
             Len(result.connections) >= 3, Dec(4, 1))

CalculateVoltageDividerCompleteness(result) ==
    AddScore(AddScore(FromInt(0),
                      Len(Resistors(result.components)) >= 2, Dec(8, 1)),
             Len(result.connections) >= 1, Dec(2, 1))

CalculateCompleteness(result) ==
    FMin(CASE result.circuitType = "non_inverting_op_amp" ->
                  CalculateOpAmpCompleteness(result)
           [] result.circuitType = "inverting_op_amp" ->
                  CalculateOpAmpCompleteness(result)
           [] result.circuitType = "voltage_divider" ->
                  CalculateVoltageDividerCompleteness(result)
           [] OTHER -> FDiv(FromInt(Len(result.components)), FromInt(5)),
         FromInt(1))

\* result.completeness = completeness; result.isValid = completeness >= threshold
SetCompleteness(result, completeness, threshold) ==
    [result EXCEPT !.completeness = completeness,
                   !.isValid = FGe(completeness, threshold)]

\* Sets completeness and isValid from the result built so far.
WithCompleteness(result) ==
    SetCompleteness(result, CalculateCompleteness(result), analysisConfidenceThreshold)

\* if (condition) { result.missingComponents.push(missing); result.errors.push(error) }
Report(result, condition, missing, error) ==
    IF condition
    THEN [result EXCEPT !.missingComponents = Append(@, missing),
                        !.errors = Append(@, error)]
    ELSE result

\* if (enabled && r1.value && r2.value) result.gain = gain
SetGain(result, enabled, r1, r2, gain) ==
    IF enabled /\ r1.value # <<>> /\ r2.value # <<>>
    THEN [result EXCEPT !.gain = gain]
    ELSE result

\* The part of analyzeNonInvertingOpAmp after its two length checks.
ConnectOpAmp(result, resistors, opAmps, gainEnabled) ==
    IF Len(resistors) >= 2 /\ Len(opAmps) >= 1
    THEN WithCompleteness(
             SetGain([result EXCEPT !.connections =
                         CalculateOpAmpConnections(resistors[1], resistors[2], opAmps[1])],
                     gainEnabled, resistors[1], resistors[2],
                     CalculateNonInvertingGain(resistors[1].value, resistors[2].value)))
    ELSE result

AnalyzeNonInvertingOpAmp(result, components, gainEnabled) ==
    ConnectOpAmp(
        Report(Report(result, Len(Resistors(components)) < 2, "feedback resistor",
                      "Need at least 2 resistors for non-inverting op amp"),
               Len(OpAmps(components)) < 1, "operational amplifier",
               "Need an op amp for non-inverting amplifier"),
        Resistors(components), OpAmps(components), gainEnabled)

\* The part of analyzeInvertingOpAmp after its early return.
InvertingAnalysis(result, resistors, gainEnabled) ==
    WithCompleteness(
        SetGain(result, gainEnabled, resistors[1], resistors[2],
                CalculateInvertingGain(resistors[1].value, resistors[2].value)))

AnalyzeInvertingOpAmp(result, components, gainEnabled) ==
    IF Len(Resistors(components)) < 2 \/ Len(OpAmps(components)) < 1
    THEN [result EXCEPT !.errors =
             Append(@, "Inverting op amp requires 2 resistors and 1 op amp")]
    ELSE InvertingAnalysis(result, Resistors(components), gainEnabled)

\* The part of analyzeVoltageDivider after its early return.
DividerAnalysis(result, resistors, gainEnabled) ==
    WithCompleteness(
        SetGain(result, gainEnabled, resistors[1], resistors[2],
                CalculateVoltageDividerGain(resistors[1].value, resistors[2].value)))

AnalyzeVoltageDivider(result, components, gainEnabled) ==
    IF Len(Resistors(components)) < 2
    THEN [result EXCEPT !.errors =
             Append(@, "Voltage divider requires at least 2 resistors")]
    ELSE DividerAnalysis(result, Resistors(components), gainEnabled)

AnalyzeGenericCircuit(result, components) ==
    SetCompleteness(result, FDiv(FromInt(Len(components)), FromInt(5)), Dec(5, 1))

\* The switch of analyzeCircuitTopology on the detected type.
AnalyzeByType(result, components, gainEnabled) ==
    CASE result.circuitType = "non_inverting_op_amp" ->
             AnalyzeNonInvertingOpAmp(result, components, gainEnabled)
      [] result.circuitType = "inverting_op_amp" ->
             AnalyzeInvertingOpAmp(result, components, gainEnabled)
      [] result.circuitType = "voltage_divider" ->
             AnalyzeVoltageDivider(result, components, gainEnabled)
      [] OTHER -> AnalyzeGenericCircuit(result, components)

AnalyzeCircuitTopology(components, gainEnabled) ==
    AnalyzeByType([circuitType       |-> DetectCircuitType(components),
                   components        |-> components,
                   connections       |-> <<>>,
                   completeness      |-> FromInt(0),
                   missingComponents |-> <<>>,
                   errors            |-> <<>>,
                   isValid           |-> FALSE,
                   gain              |-> Undefined],
                  components, gainEnabled)

\* The components a detection can deliver to the analyzer; a value is the
\* string read off the part ("OMEGA" stands for the ohm sign).
ResistorValues ==
    { <<>>,
      <<"1", "k">>,
      <<"4", ".", "7", "k", "OMEGA">>,
      <<"0">>,
      <<"a", "b", "c">> }

ComponentUniverse ==
    [type : {"resistor"}, value : ResistorValues]
        \cup { [type |-> "op_amp", value |-> <<>>],
               [type |-> "wire", value |-> <<>>] }

\* Identifiers handed to removeComponent: two type names and one per-part id.
ComponentIds == {"resistor", "op_amp", "resistor_1"}

AnalyzerInit ==
    /\ enableRealTimeAnalysis \in BOOLEAN
    /\ enableGainCalculation \in BOOLEAN
    /\ detectedComponents = <<>>
    /\ detectedConnections = <<>>
    /\ currentAnalysis = Null
    /\ analysisHistory = <<>>
    /\ analyzerEvents = <<>>
    /\ analyzerOps = 0

\* The analyzer as it is configured by default and never called.
AnalyzerIdle ==
    /\ enableRealTimeAnalysis = TRUE
    /\ enableGainCalculation = TRUE
    /\ detectedComponents = <<>>
    /\ detectedConnections = <<>>
    /\ currentAnalysis = Null
    /\ analysisHistory = <<>>
    /\ analyzerEvents = <<>>
    /\ analyzerOps = 0

\* performRealTimeAnalysis over the component list the caller has just stored.
\* history.push(analysis) without the limit
PushUnlimited(history, analysis) == Append(history, analysis)

\* history.push(analysis); if (history.length > 10) history.shift()
PushLimited(history, analysis) ==
    IF Len(history) + 1 > MaxAnalysisHistory
    THEN Tail(Append(history, analysis))
    ELSE Append(history, analysis)

\* The body of performRealTimeAnalysis once the analysis is computed.
StoreAnalysis(analysis) ==
    /\ currentAnalysis' = <<analysis>>
    /\ analysisHistory' = PushLimited(analysisHistory, analysis)
    /\ analyzerEvents' =
           IF FGe(analysis.completeness, Dec(8, 1)) /\ analysis.isValid
           THEN <<"topologyUpdated", "circuitDetected">>
           ELSE <<"topologyUpdated">>

PerformRealTimeAnalysis(components) ==
    StoreAnalysis(AnalyzeCircuitTopology(components, enableGainCalculation))

\* A call of one of the analyzer's methods, the `limit`-th at most.
AnalyzerCall(limit) ==
    /\ analyzerOps < limit
    /\ analyzerOps' = analyzerOps + 1
    /\ UNCHANGED <<enableRealTimeAnalysis, enableGainCalculation>>
    /\ UNCHANGED analyzerFrame

AddComponentWithin(limit, component) ==
    /\ AnalyzerCall(limit)
    /\ detectedComponents' = Append(detectedComponents, component)
    /\ IF enableRealTimeAnalysis
       THEN PerformRealTimeAnalysis(Append(detectedComponents, component))
       ELSE /\ analyzerEvents' = <<>>
            /\ UNCHANGED <<currentAnalysis, analysisHistory>>
    /\ UNCHANGED detectedConnections

AddComponent(component) == AddComponentWithin(MaxAnalyzerOps, component)

RemoveComponentWithin(limit, componentId) ==
    /\ AnalyzerCall(limit)
    /\ detectedComponents' =
           SelectSeq(detectedComponents, LAMBDA c : c.type # componentId)
    /\ IF enableRealTimeAnalysis
       THEN PerformRealTimeAnalysis(SelectSeq(detectedComponents, LAMBDA c : c.type # componentId))
       ELSE /\ analyzerEvents' = <<>>
            /\ UNCHANGED <<currentAnalysis, analysisHistory>>
    /\ UNCHANGED detectedConnections

RemoveComponent(componentId) == RemoveComponentWithin(MaxAnalyzerOps, componentId)

ClearComponentsWithin(limit) ==
    /\ AnalyzerCall(limit)
    /\ detectedComponents' = <<>>
    /\ detectedConnections' = <<>>
    /\ currentAnalysis' = Null
    /\ analysisHistory' = <<>>
    /\ analyzerEvents' = <<>>

ClearComponents == ClearComponentsWithin(MaxAnalyzerOps)

GetCircuitType ==
    IF currentAnalysis = Null THEN "unknown" ELSE currentAnalysis[1].circuitType

GetCircuitGain ==
    IF currentAnalysis = Null THEN Undefined ELSE currentAnalysis[1].gain

AnalyzerNext ==
    \/ \E component \in ComponentUniverse : AddComponent(component)
    \/ \E componentId \in ComponentIds : RemoveComponent(componentId)
    \/ ClearComponents

\* Longer runs of the analyzer over parts the classification ignores.
MaxWireOps == 12

Wire == [type |-> "wire", value |-> <<>>]

WiresNext ==
    \/ AddComponentWithin(MaxWireOps, Wire)
    \/ RemoveComponentWithin(MaxWireOps, "wire")
    \/ ClearComponentsWithin(MaxWireOps)

(***************************************************************************)
(* ComponentDetector (src/unnamed/part_003).                               *)
(* The numbers of the colour table and the resistance computed from them   *)
(* are decimals <<n, k>> = n * 10^k with n not a multiple of 10 (zero is   *)
(* <<0, 0>>); the products of parseColorCode are exact in this form.       *)
(* A value string is the record of its parts: the number printed, the      *)
(* unit after it and the tolerance, or one of the fixed messages.          *)
(***************************************************************************)
\* if (this.detectionHistory.length > 50)
MaxDetectionHistory == 50

\* detectComponent calls per behaviour.
MaxDetections == 1

\* The longest colour code handed to the detector.
MaxBands == 5

RECURSIVE DecimalNorm(_, _)
DecimalNorm(n, k) ==
    IF n = 0 THEN <<0, 0>>
    ELSE IF n % 10 = 0 THEN DecimalNorm(n \div 10, k + 1)
    ELSE <<n, k>>

DecimalMul(a, b) == DecimalNorm(a[1] * b[1], a[2] + b[2])

\* a >= 10^p, for a >= 0
DecimalAtLeast(a, p) ==
    /\ a[1] > 0
    /\ IF a[2] >= p THEN TRUE
       ELSE IF p - a[2] > 9 THEN FALSE
       ELSE a[1] >= Pow10(p - a[2])

\* a / 10^p
DecimalShift(a, p) == IF a[1] = 0 THEN a ELSE <<a[1], a[2] - p>>

\* Number.prototype.toFixed(1), for a >= 0: the nearest multiple of 0.1, the
\* larger one on a tie.
ToFixed1(a) ==
    IF a[2] >= -1 THEN a
    ELSE DecimalNorm((a[1] + 5 * Pow10(-2 - a[2])) \div Pow10(-1 - a[2]), -1)

colorCodeMap ==
    [c \in {"black", "brown", "red", "orange", "yellow", "green", "blue", "violet",
            "gray", "white", "gold", "silver"} |->
        CASE c = "black"  -> [digit |-> 0, multiplier |-> <<1, 0>>,  tolerance |-> <<0, 0>>]
          [] c = "brown"  -> [digit |-> 1, multiplier |-> <<1, 1>>,  tolerance |-> <<1, 0>>]
          [] c = "red"    -> [digit |-> 2, multiplier |-> <<1, 2>>,  tolerance |-> <<2, 0>>]
          [] c = "orange" -> [digit |-> 3, multiplier |-> <<1, 3>>,  tolerance |-> <<0, 0>>]
          [] c = "yellow" -> [digit |-> 4, multiplier |-> <<1, 4>>,  tolerance |-> <<5, 0>>]
          [] c = "green"  -> [digit |-> 5, multiplier |-> <<1, 5>>,  tolerance |-> <<5, -1>>]
          [] c = "blue"   -> [digit |-> 6, multiplier |-> <<1, 6>>,  tolerance |-> <<25, -2>>]
          [] c = "violet" -> [digit |-> 7, multiplier |-> <<1, 7>>,  tolerance |-> <<1, -1>>]
          [] c = "gray"   -> [digit |-> 8, multiplier |-> <<1, 8>>,  tolerance |-> <<5, -2>>]
          [] c = "white"  -> [digit |-> 9, multiplier |-> <<1, 9>>,  tolerance |-> <<0, 0>>]
          [] c = "gold"   -> [digit |-> 0, multiplier |-> <<1, -1>>, tolerance |-> <<5, 0>>]
          [] c = "silver" -> [digit |-> 0, multiplier |-> <<1, -2>>, tolerance |-> <<1, 1>>]]

\* this.colorCodeMap.get(colorCode[i])?.digit || 0
DigitOr0(colorCode, i) ==
    IF i <= Len(colorCode) /\ colorCode[i] \in DOMAIN colorCodeMap
    THEN colorCodeMap[colorCode[i]].digit
    ELSE 0

\* this.colorCodeMap.get(colorCode[i])?.multiplier || 1
MultiplierOr1(colorCode, i) ==
    IF i <= Len(colorCode) /\ colorCode[i] \in DOMAIN colorCodeMap
    THEN colorCodeMap[colorCode[i]].multiplier
    ELSE <<1, 0>>

\* this.colorCodeMap.get(colorCode[i])?.tolerance || 5
ToleranceOr5(colorCode, i) ==
    IF /\ i <= Len(colorCode)
       /\ colorCode[i] \in DOMAIN colorCodeMap
       /\ colorCodeMap[colorCode[i]].tolerance # <<0, 0>>
    THEN colorCodeMap[colorCode[i]].tolerance
    ELSE <<5, 0>>

\* The template strings of parseColorCode.
FormatResistance(resistance, tolerance) ==
    IF DecimalAtLeast(resistance, 6)
    THEN [text |-> "value", number |-> ToFixed1(DecimalShift(resistance, 6)),
          unit |-> "MOMEGA", tolerance |-> tolerance]
    ELSE IF DecimalAtLeast(resistance, 3)
    THEN [text |-> "value", number |-> ToFixed1(DecimalShift(resistance, 3)),
          unit |-> "kOMEGA", tolerance |-> tolerance]
    ELSE [text |-> "value", number |-> resistance,
          unit |-> "OMEGA", tolerance |-> tolerance]

Message(text) ==
    [text |-> text, number |-> <<0, 0>>, unit |-> "", tolerance |-> <<0, 0>>]

ParseColorCode(colorCode) ==
    IF Len(colorCode) < 3 THEN Message("Invalid color code")
    ELSE FormatResistance(
             DecimalMul(DecimalNorm(DigitOr0(colorCode, 1) * 10 + DigitOr0(colorCode, 2), 0),
                        MultiplierOr1(colorCode, 3)),
             ToleranceOr5(colorCode, 4))

\* The colours the model reads off a resistor: digits, multipliers,
\* tolerances and one name the table does not hold.
BandColours == {"black", "brown", "red", "green", "gold", "pink"}

ColorCodes == UNION { [1..n -> BandColours] : n \in 0..MaxBands }

DetectorInit ==
    /\ enableColorCodeReading \in BOOLEAN
    /\ resistorDetected = Null
    /\ detectionHistoryLength = 0
    /\ detections = 0

DetectorIdle ==
    /\ enableColorCodeReading = TRUE
    /\ resistorDetected = Null
    /\ detectionHistoryLength = 0
    /\ detections = 0

\* detectComponent(ComponentType.Resistor, position, confidence, boundingBox,
\* {colorCode}) with a confidence that passes minConfidenceThreshold.
DetectResistor(colorCode) ==
    /\ detections < MaxDetections
    /\ detections' = detections + 1
    /\ resistorDetected' =
           << [value     |-> IF enableColorCodeReading
                             THEN ParseColorCode(colorCode)
                             ELSE Message("Unknown"),
               colorCode |-> IF enableColorCodeReading THEN colorCode ELSE <<>>] >>
    /\ detectionHistoryLength' =
           IF detectionHistoryLength + 1 > MaxDetectionHistory
           THEN detectionHistoryLength
           ELSE detectionHistoryLength + 1
    /\ UNCHANGED enableColorCodeReading
    /\ UNCHANGED detectorFrame

DetectorNext == \E colorCode \in ColorCodes : DetectResistor(colorCode)

(***************************************************************************)
(* BreadboardAROverlay (src/unnamed/part_001, lines 1-904).                *)
(* The numbers of an overlay (colour components, sizes, pulse speed, tween *)
(* progress) are fixed-point thousandths: 0.8 is 800.  Durations are       *)
(* milliseconds.  An overlay id `hole_3` is the pair <<"hole", 3>>.        *)
(* An element keeps the fields the component reads or writes after the     *)
(* creation; position, rotation and scale are written once and left out.   *)
(* config.color is a reference: the key of the preset vec4 the element     *)
(* shares with colorPresets, or "own" for a vec4 of its own.  The scene    *)
(* inputs (materials, mesh) are assigned, as Lens Studio requires of an    *)
(* @input.  The tweens of LSTween advance one callback at a time.          *)
(***************************************************************************)
\* Overlays created per behaviour.
MaxOverlays == 1

\* Calls of the overlay's methods per behaviour.
MaxOverlayOps == 3

\* private highlightSize: number = 0.02
highlightSize == 20

\* private highlightPulseSpeed: number = 1.0
highlightPulseSpeed == 1000

\* private connectionLineWidth: number = 0.005
connectionLineWidth == 5

InitialColorPresets ==
    [k \in {"placement", "connection", "warning", "info", "circuit"} |->
        CASE k = "placement"  -> [x |-> 0,    y |-> 1000, z |-> 0,    a |-> 800]
          [] k = "connection" -> [x |-> 0,    y |-> 0,    z |-> 1000, a |-> 600]
          [] k = "warning"    -> [x |-> 1000, y |-> 0,    z |-> 0,    a |-> 800]
          [] k = "info"       -> [x |-> 1000, y |-> 1000, z |-> 0,    a |-> 700]
          [] k = "circuit"    -> [x |-> 1000, y |-> 500,  z |-> 0,    a |-> 600]]

\* The fields of the component as one record, which the methods transform.
OverlayState ==
    [activeOverlays |-> activeOverlays, overlayCounter |-> overlayCounter,
     colorPresets |-> colorPresets, elements |-> elements, tweens |-> tweens,
     events |-> <<>>, requested |-> colorRequested, call |-> [op |-> "none"]]

RemovedEvent(overlayId) == <<"overlayRemoved", overlayId>>

\* The record of the last clearAllOverlays call: the ids registered when it
\* was called, for each the fade-out completions still to come until the
\* tween the call started completes, the ids overlayRemovedEvent was invoked
\* with since, and whether an overlay was created since.
Cleared(ov) ==
    IF ov.call.op = "clearAllOverlays"
    THEN [op |-> "clearAllOverlays",
          overlayIds |-> Range(ov.call.overlayIds),
          pending |-> [id \in Range(ov.call.overlayIds) |-> ov.tweens[id].fadeOut],
          removed |-> {id \in Range(ov.call.overlayIds) : RemovedEvent(id) \in Range(ov.events)},
          created |-> FALSE]
    ELSE IF clearing.op = "none" THEN clearing
    ELSE [clearing EXCEPT
             !.created = @ \/ ov.overlayCounter > overlayCounter,
             !.removed = @ \cup {id \in clearing.overlayIds :
                                     RemovedEvent(id) \in Range(ov.events)},
             !.pending = [id \in DOMAIN @ |->
                             IF ov.call = [op |-> "fadeOutComplete", overlayId |-> id]
                                /\ @[id] > 0
                             THEN @[id] - 1 ELSE @[id]]]

SetOverlayState(ov) ==
    /\ clearing' = Cleared(ov)
    /\ activeOverlays' = ov.activeOverlays
    /\ overlayCounter' = ov.overlayCounter
    /\ colorPresets' = ov.colorPresets
    /\ elements' = ov.elements
    /\ tweens' = ov.tweens
    /\ overlayEvents' = ov.events
    /\ colorRequested' = ov.requested
    /\ overlayCall' = ov.call

NoTweens == [pulse |-> "none", fadeIn |-> "none", fadeOut |-> 0]

\* this.activeOverlays.set(overlayId, overlay); this.overlayCreatedEvent.invoke(overlay)
Register(ov, overlay, startedTweens) ==
    [ov EXCEPT !.overlayCounter = @ + 1,
               !.activeOverlays = Append(@, overlay.id),
               !.elements = (overlay.id :> overlay) @@ @,
               !.tweens = (overlay.id :> startedTweens) @@ @,
               !.events = Append(@, <<"overlayCreated", overlay.id>>)]

\* colorPresets.get(color) || colorPresets.get("connection") for every overlay.
PresetOrConnection(presets, color, fallback) ==
    IF color \in DOMAIN presets THEN color ELSE "connection"

\* this.colorPresets.get(color) || this.colorPresets.get(fallback)
PresetOr(presets, color, fallback) ==
    IF color \in DOMAIN presets THEN color ELSE fallback

\* The three create...Highlight methods record the same element; they
\* differ in the material they clone.
HighlightElement(overlayId, method, colorRef, duration) ==
    [id |-> overlayId, type |-> "hole_highlight",
     config |-> [color |-> colorRef, size |-> highlightSize,
                 pulseSpeed |-> highlightPulseSpeed, duration |-> duration,
                 fadeInDuration |-> 500, fadeOutDuration |-> 500],
     isVisible |-> TRUE, sceneEnabled |-> TRUE,
     material |-> IF method = "fresnel_glow" THEN "fresnelMaterial"
                  ELSE "highlightMaterial"]

\* animateHoleHighlight: the pulse and the fade-in start when the element
\* has a scene object and a material.
AnimateHoleHighlight(overlay) ==
    IF overlay.material = "none" THEN NoTweens
    ELSE [pulse |-> "grow", fadeIn |-> "running", fadeOut |-> 0]

HighlightBreadboardHole(ov, method, color, duration) ==
    Register([ov EXCEPT !.requested = (<<"hole", ov.overlayCounter>> :> color) @@ @],
             HighlightElement(<<"hole", ov.overlayCounter>>, method,
                              PresetOr(ov.colorPresets, color, "placement"), duration),
             AnimateHoleHighlight(
                 HighlightElement(<<"hole", ov.overlayCounter>>, method,
                                  PresetOr(ov.colorPresets, color, "placement"),
                                  duration)))

ShowComponentLabel(ov) ==
    Register(ov,
             [id |-> <<"label", ov.overlayCounter>>, type |-> "component_label",
              config |-> [color |-> "own", size |-> 20, pulseSpeed |-> 0,
                          duration |-> 10000, fadeInDuration |-> 500,
                          fadeOutDuration |-> 500],
              isVisible |-> TRUE, sceneEnabled |-> TRUE, material |-> "none"],
             NoTweens)

DrawConnectionLine(ov, color) ==
    Register([ov EXCEPT !.requested = (<<"line", ov.overlayCounter>> :> color) @@ @],
             [id |-> <<"line", ov.overlayCounter>>, type |-> "connection_line",
              config |-> [color |-> PresetOr(ov.colorPresets, color, "connection"),
                          size |-> connectionLineWidth, pulseSpeed |-> 0,
                          duration |-> 15000, fadeInDuration |-> 1000,
                          fadeOutDuration |-> 1000],
              isVisible |-> TRUE, sceneEnabled |-> TRUE,
              material |-> "connectionMaterial"],
             NoTweens)

ShowPlacementGuidance(ov, method) ==
    ShowComponentLabel(HighlightBreadboardHole(ov, method, "placement", 8000))

ShowCircuitTopology(ov, method) ==
    DrawConnectionLine(DrawConnectionLine(DrawConnectionLine(DrawConnectionLine(
        HighlightBreadboardHole(HighlightBreadboardHole(HighlightBreadboardHole(
            HighlightBreadboardHole(ov, method, "circuit", 15000),
            method, "circuit", 15000), method, "circuit", 15000),
            method, "circuit", 15000),
        "connection"), "connection"), "connection"), "connection")

\* The removal that ends removeOverlay: at once, or when the fade-out completes.
DeleteOverlay(ov, overlayId) ==
    [ov EXCEPT !.elements[overlayId].sceneEnabled = FALSE,
               !.activeOverlays = SelectSeq(@, LAMBDA k : k # overlayId),
               !.events = Append(@, <<"overlayRemoved", overlayId>>)]

\* The record of a removeOverlay call.
Removal(overlayId, returned) ==
    [op |-> "removeOverlay", overlayId |-> overlayId, returned |-> returned]

\* removeOverlay deleting the entry at once, with or without a material.
RemoveOverlayAtOnce(ov, overlayId) ==
    IF \A i \in DOMAIN ov.activeOverlays : ov.activeOverlays[i] # overlayId
    THEN [ov EXCEPT !.call = Removal(overlayId, FALSE)]
    ELSE DeleteOverlay([ov EXCEPT !.elements[overlayId].isVisible = FALSE,
                                  !.call = Removal(overlayId, TRUE)], overlayId)

RemoveOverlay(ov, overlayId) ==
    IF \A i \in DOMAIN ov.activeOverlays : ov.activeOverlays[i] # overlayId
    THEN [ov EXCEPT !.call = Removal(overlayId, FALSE)]
    ELSE IF ov.elements[overlayId].material # "none"
    THEN [ov EXCEPT !.elements[overlayId].isVisible = FALSE,
                    !.tweens[overlayId].fadeOut = @ + 1,
                    !.call = Removal(overlayId, TRUE)]
    ELSE DeleteOverlay([ov EXCEPT !.elements[overlayId].isVisible = FALSE,
                                  !.call = Removal(overlayId, TRUE)], overlayId)

\* overlayIds.forEach(id => this.removeOverlay(id)) over the keys from position i on.
RECURSIVE RemoveEach(_, _, _)
RemoveEach(ov, overlayIds, i) ==
    IF i > Len(overlayIds) THEN ov
    ELSE RemoveEach(RemoveOverlay(ov, overlayIds[i]), overlayIds, i + 1)

\* clearAllOverlays leaving the first key out.
ClearAllOverlaysButFirst(ov) ==
    [RemoveEach(ov, ov.activeOverlays, 2) EXCEPT
        !.call = [op |-> "clearAllOverlays", overlayIds |-> ov.activeOverlays]]

ClearAllOverlays(ov) ==
    [RemoveEach(ov, ov.activeOverlays, 1) EXCEPT
        !.call = [op |-> "clearAllOverlays", overlayIds |-> ov.activeOverlays]]

\* The colour keys a caller passes: the five presets and one unknown key.
ColourKeys == {"placement", "connection", "warning", "info", "circuit", "rainbow"}

\* The progress values at which a tween's onUpdate is observed; 1000 ends it.
TweenSamples == {500, 1000}

OverlayInit ==
    /\ highlightMethod \in {"inverted_hull", "fresnel_glow", "simple_highlight"}
    /\ activeOverlays = <<>>
    /\ overlayCounter = 0
    /\ colorPresets = InitialColorPresets
    /\ elements = <<>>
    /\ tweens = <<>>
    /\ overlayEvents = <<>>
    /\ colorRequested = <<>>
    /\ clearing = [op |-> "none"]
    /\ overlayCall = [op |-> "none"]
    /\ overlayOps = 0

OverlayIdle ==
    /\ highlightMethod = "inverted_hull"
    /\ activeOverlays = <<>>
    /\ overlayCounter = 0
    /\ colorPresets = InitialColorPresets
    /\ elements = <<>>
    /\ tweens = <<>>
    /\ overlayEvents = <<>>
    /\ colorRequested = <<>>
    /\ clearing = [op |-> "none"]
    /\ overlayCall = [op |-> "none"]
    /\ overlayOps = 0

\* A call of one of the overlay's methods that creates `created` overlays,
\* `limit` per behaviour at most.
OverlayCallWithin(limit, created) ==
    /\ overlayOps < MaxOverlayOps
    /\ created = 0 \/ overlayCounter + created <= limit
    /\ overlayOps' = overlayOps + 1
    /\ UNCHANGED highlightMethod
    /\ UNCHANGED overlayFrame

OverlayCall(created) == OverlayCallWithin(MaxOverlays, created)

HighlightBreadboardHoleCall(color, duration) ==
    /\ OverlayCall(1)
    /\ SetOverlayState(HighlightBreadboardHole(OverlayState, highlightMethod, color, duration))

ShowComponentLabelCall ==
    /\ OverlayCall(1)
    /\ SetOverlayState(ShowComponentLabel(OverlayState))

DrawConnectionLineCall(color) ==
    /\ OverlayCall(1)
    /\ SetOverlayState(DrawConnectionLine(OverlayState, color))

RemoveOverlayCall(overlayId) ==
    /\ OverlayCall(0)
    /\ SetOverlayState(RemoveOverlay(OverlayState, overlayId))

ClearAllOverlaysCall ==
    /\ OverlayCall(0)
    /\ SetOverlayState(ClearAllOverlays(OverlayState))

\* The grow tween of the pulse completes: its onComplete starts the shrink tween.
PulseGrowComplete(overlayId) ==
    /\ tweens[overlayId].pulse = "grow"
    /\ tweens' = [tweens EXCEPT ![overlayId].pulse = "shrink"]
    /\ overlayEvents' = <<>>
    /\ overlayCall' = [op |-> "none"] /\ UNCHANGED clearing
    /\ UNCHANGED <<highlightMethod, activeOverlays, overlayCounter, colorPresets,
                   elements, colorRequested, overlayOps>>
    /\ UNCHANGED overlayFrame

\* The shrink tween's onComplete without the test of isVisible.
PulseShrinkCompleteAlways(overlayId) ==
    /\ tweens[overlayId].pulse = "shrink"
    /\ tweens' = [tweens EXCEPT ![overlayId].pulse = "grow"]
    /\ overlayEvents' = <<>>
    /\ overlayCall' = [op |-> "none"] /\ UNCHANGED clearing
    /\ UNCHANGED <<highlightMethod, activeOverlays, overlayCounter, colorPresets,
                   elements, colorRequested, overlayOps>>
    /\ UNCHANGED overlayFrame

\* The shrink tween completes: if (overlay.isVisible) animatePulse()
PulseShrinkComplete(overlayId) ==
    /\ tweens[overlayId].pulse = "shrink"
    /\ tweens' = [tweens EXCEPT ![overlayId].pulse =
                     IF elements[overlayId].isVisible THEN "grow" ELSE "stopped"]
    /\ overlayEvents' = <<>>
    /\ overlayCall' = [op |-> "none"] /\ UNCHANGED clearing
    /\ UNCHANGED <<highlightMethod, activeOverlays, overlayCounter, colorPresets,
                   elements, colorRequested, overlayOps>>
    /\ UNCHANGED overlayFrame

\* color.a = alpha * 0.8 on the vec4 the element's config refers to.
SetAlpha(presets, colorRef, alpha) ==
    IF colorRef \in DOMAIN presets
    THEN [presets EXCEPT ![colorRef].a = (alpha * 800) \div 1000]
    ELSE presets

\* onUpdate of the fade-in tween at progress t.
FadeInUpdate(overlayId, t) ==
    /\ tweens[overlayId].fadeIn = "running"
    /\ colorPresets' = SetAlpha(colorPresets, elements[overlayId].config.color, t)
    /\ tweens' = [tweens EXCEPT ![overlayId].fadeIn =
                     IF t = 1000 THEN "done" ELSE "running"]
    /\ overlayEvents' = <<>>
    /\ overlayCall' = [op |-> "none"] /\ UNCHANGED clearing
    /\ UNCHANGED <<highlightMethod, activeOverlays, overlayCounter, elements,
                   colorRequested, overlayOps>>
    /\ UNCHANGED overlayFrame

\* onUpdate of a fade-out tween at progress t, and its onComplete at the end.
FadeOutUpdate(overlayId, t) ==
    /\ tweens[overlayId].fadeOut > 0
    /\ IF t = 1000
       THEN SetOverlayState(
                DeleteOverlay(
                    [OverlayState EXCEPT
                        !.colorPresets =
                            SetAlpha(@, elements[overlayId].config.color, 1000 - t),
                        !.tweens[overlayId].fadeOut = @ - 1,
                        !.call = [op |-> "fadeOutComplete", overlayId |-> overlayId]],
                    overlayId))
       ELSE /\ colorPresets' =
                   SetAlpha(colorPresets, elements[overlayId].config.color, 1000 - t)
            /\ overlayEvents' = <<>>
            /\ overlayCall' = [op |-> "none"] /\ UNCHANGED clearing
            /\ UNCHANGED <<activeOverlays, overlayCounter, elements, tweens,
                           colorRequested>>
    /\ UNCHANGED <<highlightMethod, overlayOps>>
    /\ UNCHANGED overlayFrame

\* The ids a caller may hold: those handed out and one that never was.
KnownIds == DOMAIN elements \cup {<<"hole", MaxOverlays + MaxOverlayOps>>}

OverlayNext ==
    \/ \E color \in ColourKeys : HighlightBreadboardHoleCall(color, 5000)
    \/ ShowComponentLabelCall
    \/ \E color \in {"connection", "rainbow"} : DrawConnectionLineCall(color)
    \/ \E overlayId \in KnownIds : RemoveOverlayCall(overlayId)
    \/ ClearAllOverlaysCall
    \/ \E overlayId \in DOMAIN elements : PulseGrowComplete(overlayId)
    \/ \E overlayId \in DOMAIN elements : PulseShrinkComplete(overlayId)
    \/ \E overlayId \in DOMAIN elements, t \in TweenSamples : FadeInUpdate(overlayId, t)
    \/ \E overlayId \in DOMAIN elements, t \in TweenSamples : FadeOutUpdate(overlayId, t)

\* placementGuidanceEvent: showPlacementGuidance creates a highlight and a label.
MaxGuidanceOverlays == 2

ShowPlacementGuidanceCall ==
    /\ OverlayCallWithin(MaxGuidanceOverlays, 2)
    /\ SetOverlayState(ShowPlacementGuidance(OverlayState, highlightMethod))

\* Guidance overlays and their removal.
ClearingNext ==
    \/ ShowPlacementGuidanceCall
    \/ \E overlayId \in KnownIds : RemoveOverlayCall(overlayId)
    \/ ClearAllOverlaysCall
    \/ \E overlayId \in DOMAIN elements : PulseGrowComplete(overlayId)
    \/ \E overlayId \in DOMAIN elements : PulseShrinkComplete(overlayId)
    \/ \E overlayId \in DOMAIN elements, t \in TweenSamples : FadeInUpdate(overlayId, t)
    \/ \E overlayId \in DOMAIN elements, t \in TweenSamples : FadeOutUpdate(overlayId, t)

\* A running tween advances: LSTween calls the callbacks of every started
\* tween on the update events of the scene.
TweenStep ==
    \/ \E overlayId \in DOMAIN elements : PulseGrowComplete(overlayId)
    \/ \E overlayId \in DOMAIN elements : PulseShrinkComplete(overlayId)
    \/ \E overlayId \in DOMAIN elements, t \in TweenSamples : FadeInUpdate(overlayId, t)
    \/ \E overlayId \in DOMAIN elements, t \in TweenSamples : FadeOutUpdate(overlayId, t)

\* The overlay when nobody calls removeOverlay or clearAllOverlays: the
\* creating methods and the tweens they start.
UnremovedNext ==
    \/ \E color \in ColourKeys : HighlightBreadboardHoleCall(color, 5000)
    \/ ShowComponentLabelCall
    \/ \E color \in {"connection", "rainbow"} : DrawConnectionLineCall(color)
    \/ \E overlayId \in DOMAIN elements : PulseGrowComplete(overlayId)
    \/ \E overlayId \in DOMAIN elements : PulseShrinkComplete(overlayId)
    \/ \E overlayId \in DOMAIN elements, t \in TweenSamples : FadeInUpdate(overlayId, t)

(***************************************************************************)
(* BreadboardAssistant (src/unnamed/part_001, lines 1321-1708) and          *)
(* BreadboardUIBridge (src/unnamed/part_002), after onStart has connected   *)
(* the listeners.  The bridge drives the assistant and the overlay, so its  *)
(* handlers are steps over the three components.  A text is a tuple of its  *)
(* parts; a template with values is <<template, type, value, total>>.       *)
(***************************************************************************)
\* Events delivered to the bridge per behaviour.
MaxBridgeOps == 3

\* The components an event may carry: type and value ("" for none).
DetectedSamples ==
    {[type |-> "resistor", value |-> "10k"], [type |-> "op_amp", value |-> ""],
     [type |-> "breadboard", value |-> ""]}

\* updateStatusText: the text is set at once and again when the tween that
\* fades the old text out completes.
UpdateStatusText(texts) ==
    /\ statusText' = texts[Len(texts)]
    /\ statusTweens' = statusTweens \o texts

\* createGeminiLiveSession: this.GeminiLive = Gemini.liveConnect() with its
\* listeners; the session before it is left as it is, its listeners attached.
CreateGeminiLiveSession ==
    /\ sessionCount' = sessionCount + 1
    /\ sessionOpen' = Append(sessionOpen, FALSE)
    /\ sessionTraffic' = Append(sessionTraffic, <<>>)
    /\ completedTextDisplay' = Append(completedTextDisplay, TRUE)
    /\ chunksSinceTurn' = Append(chunksSinceTurn, 0)
    /\ UNCHANGED <<audioListeners, videoListeners, sessionCall, sessionOps>>

\* streamData(stream)
StreamData(stream) ==
    /\ micRecording' = stream
    /\ videoRecording' = IF haveVideoInput THEN stream ELSE videoRecording

\* stopAnalysis of the bridge without the call of breadboardAssistant.stopAnalysis().
StopAnalysisKeepsStreaming ==
    /\ isAnalysisActive' = FALSE
    /\ UNCHANGED <<micRecording, videoRecording>>
    /\ currentUIState' = "initial"
    /\ UpdateStatusText(<< <<"Analysis stopped">> >>)
    /\ revertTimeout' = "pending"
    /\ UNCHANGED <<sessionCount, hasPressedButtonOnce, hintTextEnabled>>
    /\ UNCHANGED sessionVars

\* stopAnalysis of the bridge.  The timer it starts replaces a pending one.
StopAnalysis ==
    /\ isAnalysisActive' = FALSE
    /\ StreamData(FALSE)
    /\ currentUIState' = "initial"
    /\ UpdateStatusText(<< <<"Analysis stopped">> >>)
    /\ revertTimeout' = "pending"
    /\ UNCHANGED <<sessionCount, hasPressedButtonOnce, hintTextEnabled>>
    /\ UNCHANGED sessionVars

\* startAnalysis of the bridge without the clearTimeout of the revert timer.
StartAnalysisKeepsTimer(internetAvailable) ==
    IF isAnalysisActive THEN StopAnalysis
    ELSE /\ UNCHANGED revertTimeout
         /\ isAnalysisActive' = TRUE
         /\ currentUIState' = "analyzing"
         /\ CreateGeminiLiveSession
         /\ StreamData(TRUE)
         /\ UpdateStatusText(
                << <<IF internetAvailable THEN "Websocket connected" ELSE "No internet">>,
                   <<"Analyzing Relay circuit...">> >>)
         /\ hasPressedButtonOnce' = TRUE
         /\ hintTextEnabled' = IF hasPressedButtonOnce THEN hintTextEnabled ELSE FALSE

\* startAnalysis of the bridge; createGeminiLiveSession reports the
\* connection through updateTextEvent before the bridge sets its own text.
StartAnalysis(internetAvailable) ==
    IF isAnalysisActive THEN StopAnalysis
    ELSE /\ revertTimeout' = IF revertTimeout = "null" THEN revertTimeout ELSE "null"
         /\ isAnalysisActive' = TRUE
         /\ currentUIState' = "analyzing"
         /\ CreateGeminiLiveSession
         /\ StreamData(TRUE)
         /\ UpdateStatusText(
                << <<IF internetAvailable THEN "Websocket connected" ELSE "No internet">>,
                   <<"Analyzing Relay circuit...">> >>)
         /\ hasPressedButtonOnce' = TRUE
         /\ hintTextEnabled' = IF hasPressedButtonOnce THEN hintTextEnabled ELSE FALSE

\* An event from outside reaches the bridge.
BridgeEvent ==
    /\ bridgeOps < MaxBridgeOps
    /\ bridgeOps' = bridgeOps + 1
    /\ UNCHANGED <<showComponentLabels, showConnectionLines, haveVideoInput,
                   highlightMethod, overlayOps>>
    /\ UNCHANGED bridgeFrame

\* startStopButton.onButtonPinched
Pinch(internetAvailable) ==
    /\ BridgeEvent
    /\ pinches' = pinches + 1
    /\ IF isAnalysisActive THEN StopAnalysis ELSE StartAnalysis(internetAvailable)
    /\ bridgeEvents' = <<>>
    /\ UNCHANGED <<detectedComponentsCount, circuitTopologyComplete, hintText>>
    /\ SetOverlayState(OverlayState)

\* The revert timer fires: revertToOriginalState.
RevertTimerFires ==
    /\ revertTimeout = "pending"
    /\ revertTimeout' = "fired"
    /\ hintTextEnabled' = TRUE
    /\ hintText' = <<"Press button to start/stop analysis">>
    /\ UpdateStatusText(<< <<"Ready for Relay analysis">> >>)
    /\ hasPressedButtonOnce' = FALSE
    /\ bridgeEvents' = <<>>
    /\ UNCHANGED <<showComponentLabels, showConnectionLines, currentUIState,
                   isAnalysisActive, detectedComponentsCount, circuitTopologyComplete,
                   pinches, bridgeOps>>
    /\ UNCHANGED <<assistantVars, sessionVars, overlayVars>>
    /\ UNCHANGED bridgeFrame

\* The texts onComponentDetected shows; getDetectedComponents() is always
\* empty, so the "breadboard and op amp" text is never among them.
DetectedTexts(component, total) ==
    << IF component.type \in {"breadboard", "op_amp"}
       THEN <<"Found at", component.type, "", 0>>
       ELSE <<"Detected", component.type, component.value, total>> >>
    \o IF total >= 3 THEN << <<"Analyzing circuit topology...">> >> ELSE <<>>

\* componentDetectedEvent.invoke(component): the listener of the overlay
\* (showComponentLabel) and the listener of the bridge (onComponentDetected).
ComponentDetectedEvent(component) ==
    /\ BridgeEvent
    /\ detectedComponentsCount' = detectedComponentsCount + 1
    /\ UpdateStatusText(DetectedTexts(component, detectedComponentsCount + 1))
    /\ SetOverlayState(IF showComponentLabels
                       THEN ShowComponentLabel(ShowComponentLabel(OverlayState))
                       ELSE ShowComponentLabel(OverlayState))
    /\ currentUIState' = IF detectedComponentsCount + 1 >= 3
                         THEN "showing_guidance" ELSE currentUIState
    /\ bridgeEvents' = <<>>
    /\ UNCHANGED <<isAnalysisActive, circuitTopologyComplete, hasPressedButtonOnce,
                   revertTimeout, hintTextEnabled, hintText, pinches>>
    /\ UNCHANGED <<sessionCount, micRecording, videoRecording>>
    /\ UNCHANGED sessionVars

\* circuitCompleteEvent.invoke(topology): the listener of the overlay
\* (showCircuitTopology) and the listener of the bridge (onCircuitComplete).
CircuitCompleteEvent ==
    /\ BridgeEvent
    /\ circuitTopologyComplete' = TRUE
    /\ currentUIState' = "circuit_complete"
    /\ SetOverlayState(IF showConnectionLines
                       THEN ShowCircuitTopology(
                                ShowCircuitTopology(OverlayState, highlightMethod),
                                highlightMethod)
                       ELSE ShowCircuitTopology(OverlayState, highlightMethod))
    /\ UpdateStatusText(
           << <<"Circuit topology complete! Non-inverting op amp detected.">> >>)
    /\ hintText' = <<"Circuit analysis complete. All components and connections identified.">>
    /\ bridgeEvents' = << [components |-> detectedComponentsCount,
                           topologyComplete |-> TRUE] >>
    /\ UNCHANGED <<isAnalysisActive, detectedComponentsCount, hasPressedButtonOnce,
                   revertTimeout, hintTextEnabled, pinches>>
    /\ UNCHANGED <<sessionCount, micRecording, videoRecording>>
    /\ UNCHANGED sessionVars

\* sphereController.isActivatedEvent
SphereActivated(isActivated) ==
    /\ BridgeEvent
    /\ IF isAnalysisActive THEN StreamData(isActivated)
       ELSE UNCHANGED <<micRecording, videoRecording>>
    /\ bridgeEvents' = <<>>
    /\ UNCHANGED <<currentUIState, isAnalysisActive, detectedComponentsCount,
                   circuitTopologyComplete, hasPressedButtonOnce, revertTimeout,
                   hintTextEnabled, hintText, statusText, statusTweens, pinches>>
    /\ UNCHANGED sessionCount
    /\ UNCHANGED sessionVars
    /\ SetOverlayState(OverlayState)

\* The tween started by the oldest updateStatusText completes:
\* this.statusText.text = text
StatusTweenComplete ==
    /\ statusTweens # <<>>
    /\ statusText' = Head(statusTweens)
    /\ statusTweens' = Tail(statusTweens)
    /\ bridgeEvents' = <<>>
    /\ UNCHANGED <<showComponentLabels, showConnectionLines, currentUIState,
                   isAnalysisActive, detectedComponentsCount, circuitTopologyComplete,
                   hasPressedButtonOnce, revertTimeout, hintTextEnabled, hintText,
                   pinches, bridgeOps>>
    /\ UNCHANGED <<assistantVars, sessionVars, overlayVars>>
    /\ UNCHANGED bridgeFrame

SessionStart ==
    /\ sessionOpen = <<>>
    /\ sessionTraffic = <<>>
    /\ completedTextDisplay = <<>>
    /\ chunksSinceTurn = <<>>
    /\ audioListeners = 0
    /\ videoListeners = 0
    /\ sessionCall = [op |-> "none"]
    /\ sessionOps = 0

AssistantInit ==
    /\ haveVideoInput \in BOOLEAN
    /\ sessionCount = 0
    /\ micRecording = FALSE
    /\ videoRecording = FALSE
    /\ SessionStart

BridgeStart ==
    /\ currentUIState = "initial"
    /\ isAnalysisActive = FALSE
    /\ detectedComponentsCount = 0
    /\ circuitTopologyComplete = FALSE
    /\ hasPressedButtonOnce = FALSE
    /\ revertTimeout = "null"
    /\ hintTextEnabled = TRUE
    /\ hintText = <<"Press button to start/stop analysis">>
    /\ statusText = <<"Ready for Relay analysis">>
    /\ statusTweens = <<>>
    /\ bridgeEvents = <<>>
    /\ pinches = 0
    /\ bridgeOps = 0

BridgeInit ==
    /\ AssistantInit
    /\ showComponentLabels \in BOOLEAN
    /\ showConnectionLines \in BOOLEAN
    /\ BridgeStart

BridgeIdle ==
    /\ haveVideoInput = TRUE
    /\ sessionCount = 0
    /\ micRecording = FALSE
    /\ videoRecording = FALSE
    /\ showComponentLabels = TRUE
    /\ showConnectionLines = TRUE
    /\ SessionStart
    /\ BridgeStart

BridgeNext ==
    \/ \E internetAvailable \in BOOLEAN : Pinch(internetAvailable)
    \/ RevertTimerFires
    \/ \E component \in DetectedSamples : ComponentDetectedEvent(component)
    \/ CircuitCompleteEvent
    \/ \E isActivated \in BOOLEAN : SphereActivated(isActivated)
    \/ StatusTweenComplete

(***************************************************************************)
(* The Gemini Live sessions of BreadboardAssistant                          *)
(* (src/unnamed/part_001, lines 1438-1604).  this.GeminiLive is the last    *)
(* session created; every send goes to it, whichever session's listener     *)
(* makes it.  A message handed to a connection that is not open yet is not  *)
(* sent.  The server answers a setup message with setupComplete and sends   *)
(* content only after it.                                                   *)
(***************************************************************************)
\* Session events delivered per behaviour.
MaxSessionOps == 5

Sent(kind) == [dir |-> "sent", kind |-> kind]

Received(kind) == [dir |-> "received", kind |-> kind]

RECURSIVE Copies(_, _)
Copies(message, n) == IF n <= 0 THEN <<>> ELSE <<message>> \o Copies(message, n - 1)

\* this.GeminiLive.send(message), once by each of `listeners` listeners
Send(traffic, open, kind, listeners) ==
    IF sessionCount > 0 /\ open[sessionCount]
    THEN [traffic EXCEPT ![sessionCount] = @ \o Copies(Sent(kind), listeners)]
    ELSE traffic

\* A session event is delivered to the assistant.
SessionEvent ==
    /\ sessionOps < MaxSessionOps
    /\ sessionOps' = sessionOps + 1
    /\ UNCHANGED haveVideoInput
    /\ UNCHANGED sessionFrame

\* onOpen of a session: sessionSetup()
OnOpen(session) ==
    /\ SessionEvent
    /\ ~sessionOpen[session]
    /\ sessionOpen' = [sessionOpen EXCEPT ![session] = TRUE]
    /\ sessionTraffic' = Send(sessionTraffic, sessionOpen', "setup", 1)
    /\ UNCHANGED <<sessionCount, micRecording, videoRecording, completedTextDisplay,
                   chunksSinceTurn, audioListeners, videoListeners, sessionCall>>

\* onMessage of a session with message.setupComplete: setupInputs()
OnSetupComplete(session) ==
    /\ SessionEvent
    /\ Sent("setup") \in Range(sessionTraffic[session])
    /\ Received("setupComplete") \notin Range(sessionTraffic[session])
    /\ sessionTraffic' = [sessionTraffic EXCEPT ![session] = Append(@, Received("setupComplete"))]
    /\ audioListeners' = audioListeners + 1
    /\ videoListeners' = IF haveVideoInput THEN videoListeners + 1 ELSE videoListeners
    /\ UNCHANGED <<sessionCount, micRecording, videoRecording, sessionOpen,
                   completedTextDisplay, chunksSinceTurn, sessionCall>>

\* audioProcessor.onAudioChunkReady, fed by the frames of the recording microphone
AudioChunkReady ==
    /\ SessionEvent
    /\ micRecording
    /\ audioListeners > 0
    /\ sessionTraffic' = Send(sessionTraffic, sessionOpen, "realtime_input", audioListeners)
    /\ UNCHANGED <<sessionCount, micRecording, videoRecording, sessionOpen,
                   completedTextDisplay, chunksSinceTurn, audioListeners, videoListeners,
                   sessionCall>>

\* videoController.onEncodedFrame while the video controller records
EncodedFrame ==
    /\ SessionEvent
    /\ videoRecording
    /\ videoListeners > 0
    /\ sessionTraffic' = Send(sessionTraffic, sessionOpen, "realtime_input", videoListeners)
    /\ UNCHANGED <<sessionCount, micRecording, videoRecording, sessionOpen,
                   completedTextDisplay, chunksSinceTurn, audioListeners, videoListeners,
                   sessionCall>>

\* The text updates the onMessage listener emits for message.serverContent.
TextUpdates(content, completed) ==
    IF content.interrupted THEN <<>>
    ELSE IF content.transcription \/ content.text THEN << [completed |-> completed] >>
    ELSE <<>>

\* completedTextDisplay after the listener has handled message.serverContent.
NextCompletedTextDisplay(content, completed) ==
    IF content.interrupted THEN completed
    ELSE IF content.transcription \/ content.text THEN FALSE
    ELSE IF content.turnComplete THEN TRUE
    ELSE completed

\* The server contents delivered: which of interrupted,
\* outputTranscription.text, modelTurn.parts[0].text and turnComplete are set.
ServerContents ==
    {[interrupted |-> i, transcription |-> tr, text |-> tx, turnComplete |-> tc] :
        i \in BOOLEAN, tr \in BOOLEAN, tx \in BOOLEAN, tc \in BOOLEAN}

\* onMessage of a session with message.serverContent
OnServerContent(session, content) ==
    /\ SessionEvent
    /\ Received("setupComplete") \in Range(sessionTraffic[session])
    /\ sessionCall' = [op |-> "onMessage", session |-> session, content |-> content,
                       updates |-> TextUpdates(content, completedTextDisplay[session]),
                       chunksBefore |-> chunksSinceTurn[session]]
    /\ completedTextDisplay' =
           [completedTextDisplay EXCEPT
               ![session] = NextCompletedTextDisplay(content, @)]
    /\ chunksSinceTurn' =
           [chunksSinceTurn EXCEPT
               ![session] = IF content.turnComplete THEN 0
                            ELSE @ + Len(TextUpdates(content, TRUE))]
    /\ UNCHANGED <<sessionCount, micRecording, videoRecording, sessionOpen,
                   sessionTraffic, audioListeners, videoListeners>>

Sessions == 1 .. sessionCount

SessionInit ==
    /\ AssistantInit
    /\ showComponentLabels = TRUE
    /\ showConnectionLines = TRUE
    /\ BridgeStart

SessionNext ==
    \/ \E internetAvailable \in BOOLEAN : Pinch(internetAvailable)
    \/ \E session \in Sessions : OnOpen(session)
    \/ \E session \in Sessions : OnSetupComplete(session)
    \/ AudioChunkReady
    \/ EncodedFrame
    \/ \E session \in Sessions, content \in ServerContents : OnServerContent(session, content)

(***************************************************************************)
(* BreadboardDepthMapper (src/unnamed/part_001, lines 906-1319).           *)
(* A vec3 is <<x, y, z>> of numbers.  A depth reading is what              *)
(* getDepthAtScreenPosition does: it returns an object with depth and      *)
(* confidence, returns null, or throws.  Math.pow(smoothingFactor, k) is   *)
(* taken as k multiplications, each rounded.  The key `${x}_${y}` of the   *)
(* position history is one-to-one on numbers; the pair <<x, y>> stands for *)
(* it.                                                                     *)
(***************************************************************************)
\* Calls of the mapper per behaviour of SpecMapper.
MaxMapperCalls == 2

\* Calls of the mapper per behaviour of SpecSmoothing: one more than the
\* history keeps.
MaxSmoothingCalls == 11

\* Reliable depth readings per behaviour of SpecSmoothing.
MaxReliableReadings == 1

\* private maxHistorySize: number = 10
maxHistorySize == 10

breadboardWidth == Dec(2, 1)

breadboardHeight == Dec(15, 2)

fallbackDistance == Dec(5, 1)

calibrationDistance == Dec(5, 1)

depthConfidenceThreshold == Dec(7, 1)

\* (breadboardX - 500) / 500
Normalized(c) == FDiv(FSub(FromInt(c), FromInt(500)), FromInt(500))

CalculateWorldPositionFromDepth(nx, ny, depth) ==
    << FMul(FMul(nx, calibrationData.width), Dec(5, 1)),
       FMul(FMul(ny, calibrationData.height), Dec(5, 1)),
       depth >>

\* calculateFallbackPosition without the halving of width and height.
CalculateFallbackPositionFullSize(nx, ny) ==
    << FMul(nx, breadboardWidth), FMul(ny, breadboardHeight),
       IF calibrationData.isCalibrated THEN calibrationData.centerZ
       ELSE fallbackDistance >>

CalculateFallbackPosition(nx, ny) ==
    << FMul(FMul(nx, breadboardWidth), Dec(5, 1)),
       FMul(FMul(ny, breadboardHeight), Dec(5, 1)),
       IF calibrationData.isCalibrated THEN calibrationData.centerZ
       ELSE fallbackDistance >>

\* depth && depth.depth > 0 && depth.confidence > this.depthConfidenceThreshold
ReliableAboveThreshold(reading) ==
    /\ reading.kind = "depth"
    /\ FGt(reading.depth, FromInt(0))
    /\ FGt(reading.confidence, depthConfidenceThreshold)

\* depth && depth.depth > 0 && depth.confidence >= this.depthConfidenceThreshold
Reliable(reading) ==
    /\ reading.kind = "depth"
    /\ FGt(reading.depth, FromInt(0))
    /\ FGe(reading.confidence, depthConfidenceThreshold)

\* The result of mapBreadboardToWorldPosition before smoothing; an absent
\* depthInfo is <<>>.
Positioning(nx, ny, reading) ==
    IF isDepthAPIEnabled /\ depthSystem
    THEN IF reading.kind = "throws"
         THEN [worldPosition |-> CalculateFallbackPosition(nx, ny),
               confidence |-> Dec(3, 1), depthInfo |-> <<>>, fallbackUsed |-> TRUE]
         ELSE IF Reliable(reading)
         THEN [worldPosition |-> CalculateWorldPositionFromDepth(nx, ny, reading.depth),
               confidence |-> reading.confidence,
               depthInfo |-> << [depth |-> reading.depth,
                                 confidence |-> reading.confidence,
                                 isValid |-> TRUE] >>,
               fallbackUsed |-> FALSE]
         ELSE [worldPosition |-> CalculateFallbackPosition(nx, ny),
               confidence |-> Dec(5, 1),
               depthInfo |-> << [depth |-> fallbackDistance,
                                 confidence |-> Dec(3, 1),
                                 isValid |-> FALSE] >>,
               fallbackUsed |-> TRUE]
    ELSE [worldPosition |-> CalculateFallbackPosition(nx, ny),
          confidence |-> Dec(4, 1), depthInfo |-> <<>>, fallbackUsed |-> TRUE]

\* Math.pow(base, k) for an integer k >= 0
RECURSIVE Pow(_, _)
Pow(base, k) == IF k = 0 THEN FromInt(1) ELSE FMul(Pow(base, k - 1), base)

\* Smoothing factors: the default 0.1, a half and 1.
SmoothingFactors == {Dec(1, 1), Dec(5, 1), FromInt(1)}

\* Math.pow(factor, k) for the factors and the exponents that occur.
Weight == [factor \in SmoothingFactors |-> [k \in 0..maxHistorySize |-> Pow(factor, k)]]

\* terms[1] + ... + terms[i], added in this order to 0
RECURSIVE Accumulate(_, _)
Accumulate(terms, i) ==
    IF i = 0 THEN <<0, 0>> ELSE FAdd(Accumulate(terms, i - 1), terms[i])

\* The weighted sum of an axis, not divided by the total weight.
SmoothedAxisUnnormalised(history, axis, factor) ==
    Accumulate([i \in DOMAIN history |->
                   FMul(history[i][axis], Weight[factor][Len(history) - i])],
               Len(history))

\* One axis of the smoothed position: the weighted sum over the total weight.
SmoothedAxis(history, axis, factor) ==
    FDiv(Accumulate([i \in DOMAIN history |->
                        FMul(history[i][axis], Weight[factor][Len(history) - i])],
                    Len(history)),
         Accumulate([i \in DOMAIN history |-> Weight[factor][Len(history) - i]],
                    Len(history)))

\* applyPositionSmoothing with a history that refuses a position when full.
PushPositionKeepsOldest(history, newPosition) ==
    IF Len(history) + 1 > maxHistorySize
    THEN history
    ELSE Append(history, newPosition)

\* history.push(newPosition); if (history.length > maxHistorySize) history.shift()
PushPosition(history, newPosition) ==
    IF Len(history) + 1 > maxHistorySize
    THEN Tail(Append(history, newPosition))
    ELSE Append(history, newPosition)

\* The value applyPositionSmoothing returns for the history it has updated.
SmoothedPosition(history, newPosition, factor) ==
    IF Len(history) = 1 THEN newPosition
    ELSE << SmoothedAxis(history, 1, factor), SmoothedAxis(history, 2, factor),
            SmoothedAxis(history, 3, factor) >>

HistoryOf(histories, key) ==
    IF key \in DOMAIN histories THEN histories[key] ELSE <<>>

\* mapBreadboardToWorldPosition once the unsmoothed result is known.
MapStep(key, raw, reading) ==
    /\ positionHistory' =
           IF enablePositionSmoothing
           THEN (key :> PushPosition(HistoryOf(positionHistory, key), raw.worldPosition))
                    @@ positionHistory
           ELSE positionHistory
    /\ mappedPositions' =
           (key :> Append(HistoryOf(mappedPositions, key), raw.worldPosition))
               @@ mappedPositions
    /\ mapperCall' =
           [op |-> "mapBreadboardToWorldPosition", key |-> key, reading |-> reading,
            unsmoothed |-> raw.worldPosition,
            result |-> IF enablePositionSmoothing
                       THEN [raw EXCEPT !.worldPosition =
                                SmoothedPosition(positionHistory'[key], raw.worldPosition,
                                                 smoothingFactor)]
                       ELSE raw]
    /\ reliableReadings' = IF raw.fallbackUsed THEN reliableReadings
                            ELSE reliableReadings + 1
    /\ mapperCalls' = mapperCalls + 1
    /\ UNCHANGED <<enablePositionSmoothing, smoothingFactor, isDepthAPIEnabled,
                   depthSystem, calibrationData>>
    /\ UNCHANGED mapperFrame

MapBreadboardToWorldPosition(breadboardX, breadboardY, reading) ==
    MapStep(<<breadboardX, breadboardY>>,
            Positioning(Normalized(breadboardX), Normalized(breadboardY), reading),
            reading)

ClearPositionHistory ==
    /\ positionHistory' = <<>>
    /\ mappedPositions' = <<>>
    /\ mapperCall' = [op |-> "clearPositionHistory"]
    /\ mapperCalls' = mapperCalls + 1
    /\ UNCHANGED <<enablePositionSmoothing, smoothingFactor, isDepthAPIEnabled,
                   depthSystem, calibrationData, reliableReadings>>
    /\ UNCHANGED mapperFrame

UpdateCalibration(centerZ, width, height) ==
    /\ calibrationData' = [centerZ |-> centerZ, width |-> width, height |-> height,
                           isCalibrated |-> TRUE]
    /\ mapperCall' = [op |-> "updateCalibration"]
    /\ mapperCalls' = mapperCalls + 1
    /\ UNCHANGED <<enablePositionSmoothing, smoothingFactor, isDepthAPIEnabled,
                   depthSystem, positionHistory, mappedPositions, reliableReadings>>
    /\ UNCHANGED mapperFrame

\* What the depth system answers: a reliable reading, one of low
\* confidence, null, or an exception.
DepthReadings ==
    {[kind |-> "depth", depth |-> Dec(3, 1), confidence |-> Dec(9, 1)],
     [kind |-> "depth", depth |-> Dec(3, 1), confidence |-> Dec(5, 1)],
     [kind |-> "null", depth |-> <<0, 0>>, confidence |-> <<0, 0>>],
     [kind |-> "throws", depth |-> <<0, 0>>, confidence |-> <<0, 0>>]}

\* Readings at the edges of the test: confidence at the threshold, depth 0.
ThresholdReadings ==
    {[kind |-> "depth", depth |-> Dec(3, 1), confidence |-> Dec(7, 1)],
     [kind |-> "depth", depth |-> <<0, 0>>, confidence |-> Dec(9, 1)]}

\* Grid coordinates: the corners, the centre and a point between.
GridSamples == {0, 250, 500, 1000}

\* The fields after onAwake (initializeCalibration) and onStart (initializeDepthAPI).
MapperStart ==
    /\ calibrationData = [centerZ |-> calibrationDistance, width |-> breadboardWidth,
                          height |-> breadboardHeight, isCalibrated |-> FALSE]
    /\ positionHistory = <<>>
    /\ mappedPositions = <<>>
    /\ mapperCall = [op |-> "none"]
    /\ reliableReadings = 0
    /\ mapperCalls = 0

\* The depth system and the depth API flag as initializeDepthAPI leaves them:
\* a depth system found, a Spectacles device without one, or neither.
DepthSetups == {<<TRUE, TRUE>>, <<TRUE, FALSE>>, <<FALSE, FALSE>>}

MapperInit ==
    /\ enablePositionSmoothing \in BOOLEAN
    /\ smoothingFactor = Dec(1, 1)
    /\ \E setup \in DepthSetups :
           /\ isDepthAPIEnabled = setup[1]
           /\ depthSystem = setup[2]
    /\ MapperStart

MapperIdle ==
    /\ enablePositionSmoothing = TRUE
    /\ smoothingFactor = Dec(1, 1)
    /\ isDepthAPIEnabled = FALSE
    /\ depthSystem = FALSE
    /\ MapperStart

SmoothingInit ==
    /\ enablePositionSmoothing = TRUE
    /\ smoothingFactor \in SmoothingFactors
    /\ isDepthAPIEnabled = TRUE
    /\ depthSystem = TRUE
    /\ MapperStart

MapperNext ==
    \/ /\ mapperCalls < MaxMapperCalls
       /\ \E x \in GridSamples, y \in GridSamples,
              reading \in DepthReadings \cup ThresholdReadings :
              MapBreadboardToWorldPosition(x, y, reading)
    \/ /\ mapperCalls < MaxMapperCalls
       /\ ClearPositionHistory
    \/ /\ mapperCalls < MaxMapperCalls
       /\ UpdateCalibration(Dec(3, 1), Dec(3, 1), Dec(15, 2))

\* Calls at two coordinates; at the first the depth reading comes and goes,
\* so the unsmoothed positions differ.
SmoothingSamples ==
    {<<250, 500, "depth">>, <<250, 500, "null">>, <<1000, 0, "null">>}

\* The reliable reading, while the behaviour may still use one, or none.
SmoothingReadings(kind) ==
    {r \in DepthReadings :
        /\ r.kind = kind
        /\ r.confidence # Dec(5, 1)
        /\ kind = "depth" => reliableReadings < MaxReliableReadings}

SmoothingNext ==
    \/ /\ mapperCalls < MaxSmoothingCalls
       /\ \E sample \in SmoothingSamples :
              \E reading \in SmoothingReadings(sample[3]) :
                  MapBreadboardToWorldPosition(sample[1], sample[2], reading)
    \/ /\ mapperCalls < MaxSmoothingCalls
       /\ ClearPositionHistory

(***************************************************************************)
(* Specifications.  Each one drives a single component from its state      *)
(* after construction and leaves the other components untouched.           *)
(***************************************************************************)
InitAnalyzer == AnalyzerInit /\ DetectorIdle /\ OverlayIdle /\ BridgeIdle /\ MapperIdle

SpecAnalyzer == InitAnalyzer /\ [][AnalyzerNext]_vars

SpecWires == InitAnalyzer /\ [][WiresNext]_vars

InitDetector == DetectorInit /\ AnalyzerIdle /\ OverlayIdle /\ BridgeIdle /\ MapperIdle

SpecDetector == InitDetector /\ [][DetectorNext]_vars

InitOverlay == OverlayInit /\ AnalyzerIdle /\ DetectorIdle /\ BridgeIdle /\ MapperIdle

SpecOverlay == InitOverlay /\ [][OverlayNext]_vars

InitBridge == BridgeInit /\ OverlayIdle /\ AnalyzerIdle /\ DetectorIdle /\ MapperIdle

SpecBridge == InitBridge /\ [][BridgeNext]_vars

InitMapper == MapperInit /\ AnalyzerIdle /\ DetectorIdle /\ OverlayIdle /\ BridgeIdle

SpecMapper == InitMapper /\ [][MapperNext]_vars

\* The scene keeps delivering update events, so a started tween advances.
SpecUnremoved == InitOverlay /\ [][UnremovedNext]_vars /\ WF_vars(TweenStep)

\* A timer started by setTimeout fires unless clearTimeout cancels it first.
SpecRevert == InitBridge /\ [][BridgeNext]_vars /\ WF_vars(RevertTimerFires)

SpecClearing == InitOverlay /\ [][ClearingNext]_vars

InitSession == SessionInit /\ OverlayIdle /\ AnalyzerIdle /\ DetectorIdle /\ MapperIdle

SpecSession == InitSession /\ [][SessionNext]_vars

InitSmoothing == SmoothingInit /\ AnalyzerIdle /\ DetectorIdle /\ OverlayIdle /\ BridgeIdle

SpecSmoothing == InitSmoothing /\ [][SmoothingNext]_vars

(***************************************************************************)
(* Properties of CircuitTopologyAnalyzer.                                  *)
(***************************************************************************)
CountOf(components, type) ==
    Cardinality({i \in DOMAIN components : components[i].type = type})

C2_AddSequences ==
    UNION { [1..n -> ComponentUniverse] : n \in 0..MaxAnalyzerOps }

\* C2: the inverting op amp is supported: some sequence of addComponent
\* calls from here leads to an analysis whose circuitType is
\* inverting_op_amp.
C2_InvertingOpAmpSupported ==
    \E added \in C2_AddSequences :
        AnalyzeCircuitTopology(detectedComponents \o added,
                               enableGainCalculation).circuitType
            = "inverting_op_amp"

\* Two resistors and an op amp, the inverting amplifier's parts, are
\* reported as the non-inverting amplifier.
C2_Witness ==
    /\ CountOf(detectedComponents, "resistor") = 2
    /\ CountOf(detectedComponents, "op_amp") = 1
    /\ GetCircuitType = "non_inverting_op_amp"

\* C3: for a non-inverting op amp or a voltage divider, with R1 and R2 the
\* parsed values of the first and second resistor in detection order, the
\* gain is undefined when one of the two carries no value; otherwise, with
\* gain calculation enabled, it is 1 + R2/R1 (non-inverting) or R2/(R1+R2)
\* (divider) when R1 > 0 and R2 > 0, and the default 1 (non-inverting) or
\* 0.5 (divider) when either is not a number > 0.
C3_GainFollowsFormula ==
    (currentAnalysis # Null /\
     currentAnalysis[1].circuitType \in {"non_inverting_op_amp", "voltage_divider"}) =>
        LET type == currentAnalysis[1].circuitType
            rs   == Resistors(detectedComponents)
            v1   == rs[1].value
            v2   == rs[2].value
            R1   == ParseResistorValue(v1)
            R2   == ParseResistorValue(v2)
            one  == FromInt(1)
            half == FDiv(FromInt(1), FromInt(2))
        IN  IF v1 = <<>> \/ v2 = <<>>
            THEN GetCircuitGain = Undefined
            ELSE enableGainCalculation =>
                   IF FGt(R1, FromInt(0)) /\ FGt(R2, FromInt(0))
                   THEN GetCircuitGain =
                            IF type = "non_inverting_op_amp"
                            THEN FAdd(one, FDiv(R2, R1))
                            ELSE FDiv(R2, FAdd(R1, R2))
                   ELSE GetCircuitGain =
                            IF type = "non_inverting_op_amp" THEN one ELSE half

\* A non-inverting amplifier whose two resistors parse to different positive
\* values has had its gain computed.
C3_Witness ==
    /\ currentAnalysis # Null
    /\ currentAnalysis[1].circuitType = "non_inverting_op_amp"
    /\ enableGainCalculation
    /\ LET rs == Resistors(detectedComponents)
       IN  /\ rs[1].value # <<>> /\ rs[2].value # <<>>
           /\ FGt(ParseResistorValue(rs[1].value), FromInt(0))
           /\ FGt(ParseResistorValue(rs[2].value), ParseResistorValue(rs[1].value))
    /\ GetCircuitGain # Undefined


(***************************************************************************)
(* Properties of ComponentDetector.                                        *)
(***************************************************************************)
\* The resistance a value string states, as a decimal number of ohms.
StatedResistance(value) ==
    DecimalMul(value.number,
               CASE value.unit = "MOMEGA" -> <<1, 6>>
                 [] value.unit = "kOMEGA" -> <<1, 3>>
                 [] OTHER -> <<1, 0>>)

\* Codes made of colours of the table, the last one naming a tolerance.
C8_ReadableCode(colorCode) ==
    /\ \A i \in DOMAIN colorCode : colorCode[i] \in DOMAIN colorCodeMap
    /\ Len(colorCode) >= 4 =>
           colorCodeMap[colorCode[Len(colorCode)]].tolerance # <<0, 0>>

\* C8: a code of fewer than 3 bands reads "Invalid color code"; a 4-band
\* code reads (10*d1 + d2) * multiplier(band 3) with the tolerance of band
\* 4; a 5-band code reads (100*d1 + 10*d2 + d3) * multiplier(band 4) with
\* the tolerance of band 5.
C8_FourAndFiveBandCodes ==
    (resistorDetected # Null /\ enableColorCodeReading
        /\ C8_ReadableCode(resistorDetected[1].colorCode)) =>
        LET cc    == resistorDetected[1].colorCode
            value == resistorDetected[1].value
            d(i)  == colorCodeMap[cc[i]].digit
        IN  /\ Len(cc) < 3 => value.text = "Invalid color code"
            /\ Len(cc) = 4 =>
                   /\ value.text = "value"
                   /\ StatedResistance(value) =
                          DecimalMul(DecimalNorm(10 * d(1) + d(2), 0),
                                     colorCodeMap[cc[3]].multiplier)
                   /\ value.tolerance = colorCodeMap[cc[4]].tolerance
            /\ Len(cc) = 5 =>
                   /\ value.text = "value"
                   /\ StatedResistance(value) =
                          DecimalMul(DecimalNorm(100 * d(1) + 10 * d(2) + d(3), 0),
                                     colorCodeMap[cc[4]].multiplier)
                   /\ value.tolerance = colorCodeMap[cc[5]].tolerance

\* The 5-band code of a 1 kOhm 1% resistor has been read as 10 Ohm 1%.
C8_Witness ==
    /\ resistorDetected # Null
    /\ resistorDetected[1].colorCode = <<"brown", "black", "black", "brown", "brown">>
    /\ resistorDetected[1].value =
           [text |-> "value", number |-> <<1, 1>>, unit |-> "OMEGA",
            tolerance |-> <<1, 0>>]

(***************************************************************************)
(* Properties of BreadboardAROverlay.                                      *)
(***************************************************************************)
\* The colour coding of the README: the red, green and blue of each key.
DocumentedColour ==
    [k \in {"placement", "connection", "warning", "info", "circuit"} |->
        CASE k = "placement"  -> <<0, 1000, 0>>
          [] k = "connection" -> <<0, 0, 1000>>
          [] k = "warning"    -> <<1000, 0, 0>>
          [] k = "info"       -> <<1000, 1000, 0>>
          [] k = "circuit"    -> <<1000, 500, 0>>]

\* The preset an overlay must record when its creator was called with `key`.
ColourFor(key, fallback) ==
    IF key \in DOMAIN DocumentedColour THEN key ELSE fallback

\* C7: a hole highlight created with one of the keys placement, connection,
\* warning, info, circuit records that key's preset (green, blue, red,
\* yellow, orange) as its config colour and with any other key the placement
\* preset; a connection line created with an unknown key records the
\* connection preset.
C7_ColourCoding ==
    \A id \in DOMAIN elements :
        /\ elements[id].type = "hole_highlight" =>
              /\ elements[id].config.color = ColourFor(colorRequested[id], "placement")
              /\ << colorPresets[elements[id].config.color].x,
                    colorPresets[elements[id].config.color].y,
                    colorPresets[elements[id].config.color].z >>
                 = DocumentedColour[ColourFor(colorRequested[id], "placement")]
        /\ elements[id].type = "connection_line" =>
              /\ elements[id].config.color = ColourFor(colorRequested[id], "connection")
              /\ << colorPresets[elements[id].config.color].x,
                    colorPresets[elements[id].config.color].y,
                    colorPresets[elements[id].config.color].z >>
                 = DocumentedColour[ColourFor(colorRequested[id], "connection")]

\* A hole highlight asked for with an unknown key, after its fade-in has run.
C7_Witness ==
    \E id \in DOMAIN elements :
        /\ elements[id].type = "hole_highlight"
        /\ colorRequested[id] = "rainbow"
        /\ elements[id].config.color = "placement"
        /\ tweens[id].fadeIn = "done"

\* C10: a pulse cycle that completes on a visible overlay starts another
\* one; once removeOverlay has set isVisible to false the overlay stays
\* invisible, the cycle in flight runs to its end and no cycle is started.
C10_PulseWhileVisible ==
    [][\A id \in DOMAIN elements :
          /\ (tweens[id].pulse = "shrink" /\ tweens'[id].pulse # "shrink"
                  /\ elements[id].isVisible)
                 => tweens'[id].pulse = "grow"
          /\ ~elements[id].isVisible =>
                 /\ ~elements'[id].isVisible
                 /\ tweens'[id].pulse = "grow" => tweens[id].pulse = "grow"
                 /\ tweens[id].pulse = "stopped" => tweens'[id].pulse = "stopped"
                 /\ tweens'[id].pulse # tweens[id].pulse =>
                        << tweens[id].pulse, tweens'[id].pulse >>
                            \in {<<"grow", "shrink">>, <<"shrink", "stopped">>}]_vars

\* A removed hole highlight whose last pulse cycle has completed.
C10_Witness ==
    \E id \in DOMAIN elements :
        /\ elements[id].type = "hole_highlight"
        /\ ~elements[id].isVisible
        /\ tweens[id].pulse = "stopped"
        /\ ~elements[id].sceneEnabled

(***************************************************************************)
(* Properties of BreadboardUIBridge.                                       *)
(***************************************************************************)
\* C9: after n pinches of the start/stop button isAnalysisActive is true
\* exactly when n is odd; a pinch while inactive starts the analysis (UI
\* state analyzing, one more Gemini Live session, recording on) and a pinch
\* while active stops it (recording off, UI state initial).
C9_PinchToggles ==
    /\ [](isAnalysisActive <=> pinches % 2 = 1)
    /\ [][pinches' = pinches + 1 =>
            IF isAnalysisActive
            THEN /\ ~isAnalysisActive'
                 /\ ~micRecording'
                 /\ haveVideoInput => ~videoRecording'
                 /\ currentUIState' = "initial"
            ELSE /\ isAnalysisActive'
                 /\ currentUIState' = "analyzing"
                 /\ sessionCount' = sessionCount + 1
                 /\ micRecording'
                 /\ haveVideoInput => videoRecording']_vars

\* The analysis started a second time, by the third pinch.
C9_Witness ==
    /\ pinches = 3
    /\ isAnalysisActive
    /\ sessionCount = 2
    /\ micRecording
    /\ currentUIState = "analyzing"

(***************************************************************************)
(* Properties of BreadboardDepthMapper.                                    *)
(***************************************************************************)
\* The last n elements of a sequence.
LastN(seq, n) ==
    IF Len(seq) <= n THEN seq ELSE SubSeq(seq, Len(seq) - n + 1, Len(seq))

\* C4: with smoothing enabled the history of every coordinate holds the
\* last 10 unsmoothed positions mapped for it, in call order, and no history
\* is left after clearPositionHistory.
C4_BoundedHistory ==
    /\ DOMAIN positionHistory = DOMAIN mappedPositions
    /\ \A key \in DOMAIN mappedPositions :
           /\ Len(positionHistory[key]) <= 10
           /\ positionHistory[key] = LastN(mappedPositions[key], 10)
    /\ mapperCall.op = "clearPositionHistory" => DOMAIN positionHistory = {}

\* An eleventh position at a coordinate has pushed out the first, which
\* differed from the second.
C4_Witness ==
    \E key \in DOMAIN mappedPositions :
        /\ Len(mappedPositions[key]) = 11
        /\ mappedPositions[key][1] # mappedPositions[key][2]
        /\ Len(positionHistory[key]) = 10

\* The values of one axis in a history.
AxisValues(history, axis) == {history[i][axis] : i \in DOMAIN history}

MinOf(values) == CHOOSE v \in values : \A w \in values : FLe(v, w)

MaxOf(values) == CHOOSE v \in values : \A w \in values : FLe(w, v)

\* value lies in [low - slack, high + slack]
Within(value, low, high, slack) ==
    /\ FLe(FSub(low, slack), value)
    /\ FLe(value, FAdd(high, slack))

\* The position returned by the last call lies, on every axis, between the
\* least and the greatest buffered value, widened by the given share
\* (2^scale) of the largest magnitude.
SmoothedWithin(history, returned, scale) ==
    \A axis \in 1..3 :
        Within(returned[axis], MinOf(AxisValues(history, axis)),
               MaxOf(AxisValues(history, axis)),
               Scale2(FMax(FAbs(MinOf(AxisValues(history, axis))),
                           FAbs(MaxOf(AxisValues(history, axis)))), scale))

\* returned[axis] lies in [low, high] exactly
Between(value, low, high) == FLe(low, value) /\ FLe(value, high)

SmoothedBetween(history, returned) ==
    \A axis \in 1..3 :
        Between(returned[axis], MinOf(AxisValues(history, axis)),
                MaxOf(AxisValues(history, axis)))

C6_GridMapping ==
    (/\ mapperCall.op = "mapBreadboardToWorldPosition"
     /\ ~(isDepthAPIEnabled /\ depthSystem)
     /\ ~enablePositionSmoothing) =>
        /\ mapperCall.result.worldPosition =
               << FMul(Normalized(mapperCall.key[1]), FDiv(breadboardWidth, FromInt(2))),
                  FMul(Normalized(mapperCall.key[2]), FDiv(breadboardHeight, FromInt(2))),
                  IF calibrationData.isCalibrated THEN calibrationData.centerZ
                  ELSE fallbackDistance >>
        /\ mapperCall.key[1] = 500 => mapperCall.result.worldPosition[1] = <<0, 0>>
        /\ mapperCall.key[2] = 500 => mapperCall.result.worldPosition[2] = <<0, 0>>
        /\ mapperCall.key[1] = 0 =>
               mapperCall.result.worldPosition[1] = FNeg(FDiv(breadboardWidth, FromInt(2)))
        /\ mapperCall.key[2] = 1000 =>
               mapperCall.result.worldPosition[2] = FDiv(breadboardHeight, FromInt(2))

\* A corner mapped after a calibration, without depth API and smoothing.
C6_Witness ==
    /\ mapperCall.op = "mapBreadboardToWorldPosition"
    /\ mapperCall.key = <<0, 1000>>
    /\ ~isDepthAPIEnabled
    /\ ~enablePositionSmoothing
    /\ calibrationData.isCalibrated
    /\ mapperCall.result.worldPosition[3] = calibrationData.centerZ

\* A step of the analyzer with real-time analysis enabled: clearComponents
\* empties everything, any other call appends the current analysis to the
\* history and drops the oldest entry beyond ten.
HistoryStep ==
    IF analysisHistory' = <<>>
    THEN /\ detectedComponents' = <<>>
         /\ detectedConnections' = <<>>
         /\ currentAnalysis' = Null
         /\ (IF currentAnalysis' = Null THEN "unknown"
             ELSE currentAnalysis'[1].circuitType) = "unknown"
    ELSE /\ currentAnalysis' # Null
         /\ analysisHistory' = LastN(Append(analysisHistory, currentAnalysis'[1]), 10)

\* C19: with real-time analysis enabled, after any sequence of addComponent,
\* removeComponent and clearComponents calls getAnalysisHistory() holds at most
\* 10 results (the oldest dropped first), and whenever it is non-empty its last
\* entry is the result returned by getCurrentAnalysis(); after clearComponents()
\* the detected components, the history and the detected connections are
\* empty, getCurrentAnalysis() is null and getCircuitType() is unknown.
C19_BoundedAnalysisHistory ==
    /\ [](enableRealTimeAnalysis =>
             /\ Len(analysisHistory) <= 10
             /\ analysisHistory # <<>> =>
                    /\ currentAnalysis # Null
                    /\ analysisHistory[Len(analysisHistory)] = currentAnalysis[1]
             /\ analysisHistory = <<>> =>
                    /\ currentAnalysis = Null
                    /\ GetCircuitType = "unknown")
    /\ [][enableRealTimeAnalysis => HistoryStep]_vars

\* The eleventh analysis has pushed the first out of the history.
C19_Witness ==
    /\ enableRealTimeAnalysis
    /\ analyzerOps = 11
    /\ Len(analysisHistory) = 10
    /\ Len(analysisHistory[1].components) = 2
    /\ Len(currentAnalysis[1].components) = 11

\* The sequence without its i-th element.
WithoutIndex(seq, i) == SubSeq(seq, 1, i - 1) \o SubSeq(seq, i + 1, Len(seq))

\* A removeComponent step, with real-time analysis enabled: an analysis was
\* made (clearComponents makes none) and no component was added.
RemovesComponent ==
    /\ enableRealTimeAnalysis
    /\ analyzerEvents' # <<>>
    /\ Len(detectedComponents') <= Len(detectedComponents)

\* C20: removeComponent(componentId) removes a component: only the identified
\* component leaves the detected set, and every other detected component,
\* including other components of the same type, is still returned by
\* getDetectedComponents() afterwards in its original order.
C20_RemovesOneComponent ==
    [][RemovesComponent =>
          \/ detectedComponents' = detectedComponents
          \/ \E i \in DOMAIN detectedComponents :
                 detectedComponents' = WithoutIndex(detectedComponents, i)]_vars

\* Two resistors were detected and one removeComponent call has removed both.
C20_Witness ==
    /\ enableRealTimeAnalysis
    /\ Len(analysisHistory) = 3
    /\ Len(Resistors(analysisHistory[2].components)) = 2
    /\ currentAnalysis # Null
    /\ detectedComponents = <<>>

(***************************************************************************)
(* Properties of the Gemini Live sessions of BreadboardAssistant.           *)
(***************************************************************************)
\* The first message sent on a session is the setup message.
SetupSentFirst(traffic) ==
    \A i \in DOMAIN traffic :
        (traffic[i].dir = "sent" /\ \A j \in 1 .. i - 1 : traffic[j].dir # "sent")
            => traffic[i] = Sent("setup")

\* Every realtime_input of a session is sent after its setupComplete arrived.
StreamedAfterSetupComplete(traffic) ==
    \A i \in DOMAIN traffic :
        traffic[i] = Sent("realtime_input")
            => \E j \in 1 .. i - 1 : traffic[j] = Received("setupComplete")

\* C11: on every Gemini Live session the setup message is the first message
\* sent, and no realtime_input message is sent on a session before that
\* session's setupComplete message has been received, including on a
\* session created by stopping analysis and starting it again.
C11_StreamedAfterSetup ==
    \A session \in Sessions :
        /\ SetupSentFirst(sessionTraffic[session])
        /\ StreamedAfterSetupComplete(sessionTraffic[session])

\* A second session, created by stop and start, has carried a realtime_input.
C11_Witness ==
    /\ sessionCount = 2
    /\ pinches = 3
    /\ Sent("realtime_input") \in Range(sessionTraffic[2])

\* C18: within one Gemini Live session, the first transcription or text chunk
\* emitted through updateTextEvent after the session starts or after a server
\* message with turnComplete carries completed = true, and every later chunk up
\* to the next turnComplete message carries completed = false; a message
\* flagged interrupted emits no text update.
C18_TurnStartMarked ==
    sessionCall.op = "onMessage" =>
        /\ sessionCall.content.interrupted => sessionCall.updates = <<>>
        /\ \A i \in DOMAIN sessionCall.updates :
               sessionCall.updates[i].completed = (sessionCall.chunksBefore = 0)

\* The first chunk after a message with turnComplete was emitted, on a session
\* that had emitted chunks before.
C18_Witness ==
    /\ sessionCall.op = "onMessage"
    /\ sessionCall.chunksBefore = 0
    /\ sessionCall.updates # <<>>
    /\ ~completedTextDisplay[sessionCall.session]
    /\ ~sessionCall.updates[1].completed

(***************************************************************************)
(* Properties of the removal of overlays.                                  *)
(***************************************************************************)
\* The ids createOverlay methods hand out within the bounds of the model.
OverlayIds == {<<kind, n>> : kind \in {"hole", "label", "line"}, n \in 0 .. MaxOverlays - 1}

Active(overlayId) == \E i \in DOMAIN activeOverlays : activeOverlays[i] = overlayId

\* C12: an overlay created with duration d > 0 (hole highlight, component label
\* with 10000 ms, connection line with 15000 ms) is eventually removed from the
\* active overlays without any call to removeOverlay or clearAllOverlays.
C12_AutoRemoved ==
    \A overlayId \in OverlayIds :
        (Active(overlayId) /\ elements[overlayId].config.duration > 0)
            ~> ~Active(overlayId)

\* A label created with its duration of 10000 ms is active and no tween or
\* timer is left that could remove it.
C12_Witness ==
    /\ Active(<<"label", 0>>)
    /\ elements[<<"label", 0>>].config.duration = 10000
    /\ tweens[<<"label", 0>>] = NoTweens

(***************************************************************************)
(* Properties of the analysis results of CircuitTopologyAnalyzer.           *)
(***************************************************************************)
\* The results produced and still held: getAnalysisHistory() and getCurrentAnalysis().
HeldAnalyses ==
    Range(analysisHistory) \cup Range(currentAnalysis)

\* C13: for every analysis result produced after any sequence of addComponent /
\* removeComponent calls (every circuit type, including unknown circuits with
\* any number of components), 0 <= completeness <= 1.
C13_CompletenessIsFraction ==
    \A analysis \in HeldAnalyses :
        /\ FLe(FromInt(0), analysis.completeness)
        /\ FLe(analysis.completeness, FromInt(1))

\* An unknown circuit of six components has been analysed.
C13_Witness ==
    /\ currentAnalysis # Null
    /\ currentAnalysis[1].circuitType = "unknown"
    /\ Len(currentAnalysis[1].components) = 6

Registered(overlays, overlayId) == \E i \in DOMAIN overlays : overlays[i] = overlayId

\* What a removeOverlay(overlayId) step does, by the overlay it finds.
RemoveOverlayStep(overlayId) ==
    IF ~Registered(activeOverlays, overlayId)
    THEN /\ overlayCall'.returned = FALSE
         /\ overlayEvents' = <<>>
         /\ UNCHANGED <<activeOverlays, elements, tweens, colorPresets>>
    ELSE /\ overlayCall'.returned = TRUE
         /\ elements'[overlayId].isVisible = FALSE
         /\ IF elements[overlayId].material # "none"
            THEN /\ Registered(activeOverlays', overlayId)
                 /\ elements'[overlayId].sceneEnabled = elements[overlayId].sceneEnabled
                 /\ tweens'[overlayId].fadeOut = tweens[overlayId].fadeOut + 1
                 /\ overlayEvents' = <<>>
            ELSE /\ ~Registered(activeOverlays', overlayId)
                 /\ ~elements'[overlayId].sceneEnabled
                 /\ overlayEvents' = <<RemovedEvent(overlayId)>>

\* An overlay with a material leaves the active overlays only when a fade-out
\* tween completes, disabled and announced by overlayRemovedEvent.
LeavesByFadeOut(overlayId) ==
    /\ (/\ Registered(activeOverlays, overlayId)
        /\ ~Registered(activeOverlays', overlayId)
        /\ elements[overlayId].material # "none")
           => overlayCall' = [op |-> "fadeOutComplete", overlayId |-> overlayId]
    /\ overlayCall' = [op |-> "fadeOutComplete", overlayId |-> overlayId]
           => /\ ~Registered(activeOverlays', overlayId)
              /\ ~elements'[overlayId].sceneEnabled
              /\ overlayEvents' = <<RemovedEvent(overlayId)>>

\* C14: removeOverlay(id) on a registered overlay returns true and sets
\* isVisible = false at once; with a material the overlay stays active until
\* its fade-out tween completes, when its scene object is disabled, the entry
\* deleted and overlayRemovedEvent(id) invoked; without a material all of this
\* happens within the call.  On an unknown id it returns false, changes no
\* overlay and invokes no event.
C14_RemoveOverlay ==
    [][/\ overlayCall'.op = "removeOverlay" => RemoveOverlayStep(overlayCall'.overlayId)
       /\ \A overlayId \in DOMAIN elements : LeavesByFadeOut(overlayId)]_vars

\* The fade-out of a removed highlight has completed: the highlight is gone.
C14_Witness ==
    /\ overlayCall = [op |-> "fadeOutComplete", overlayId |-> <<"hole", 0>>]
    /\ ~Active(<<"hole", 0>>)
    /\ ~elements[<<"hole", 0>>].isVisible
    /\ ~elements[<<"hole", 0>>].sceneEnabled
    /\ overlayEvents = <<RemovedEvent(<<"hole", 0>>)>>

\* C15: once all fade-out tweens started by a clearAllOverlays() call have
\* completed, and provided no overlay was created in between,
\* getActiveOverlays() is empty and overlayRemovedEvent has been invoked for
\* every overlay id that was registered when clearAllOverlays was called.
C15_ClearAllOverlays ==
    (/\ clearing.op = "clearAllOverlays"
     /\ ~clearing.created
     /\ \A overlayId \in clearing.overlayIds : clearing.pending[overlayId] = 0)
        => /\ activeOverlays = <<>>
           /\ clearing.overlayIds \subseteq clearing.removed

\* clearAllOverlays was called with a highlight and a label registered, and
\* the fade-out it started has completed.
C15_Witness ==
    /\ clearing.op = "clearAllOverlays"
    /\ clearing.overlayIds = {<<"hole", 0>>, <<"label", 1>>}
    /\ ~clearing.created
    /\ \A overlayId \in clearing.overlayIds : clearing.pending[overlayId] = 0
    /\ activeOverlays = <<>>

\* The reading a call obtained is usable: the depth API is enabled, a depth
\* system is present, and the reading has depth > 0 and confidence >= threshold.
DepthUsed(reading) ==
    /\ isDepthAPIEnabled
    /\ depthSystem
    /\ reading.kind = "depth"
    /\ FGt(reading.depth, FromInt(0))
    /\ ~FLt(reading.confidence, depthConfidenceThreshold)

\* The confidence and depthInfo the result reports for the way it was obtained.
ReportedAs(result, reading) ==
    IF DepthUsed(reading)
    THEN /\ result.confidence = reading.confidence
         /\ result.depthInfo # <<>>
         /\ result.depthInfo[1].isValid
    ELSE IF ~(isDepthAPIEnabled /\ depthSystem)
    THEN result.confidence = Dec(4, 1)
    ELSE IF reading.kind = "throws"
    THEN result.confidence = Dec(3, 1)
    ELSE /\ result.confidence = Dec(5, 1)
         /\ result.depthInfo # <<>>
         /\ ~result.depthInfo[1].isValid

\* C16: the result of mapBreadboardToWorldPosition has fallbackUsed = false
\* exactly when the depth API is enabled, a depth system is present and the
\* reading has depth > 0 and confidence >= depthConfidenceThreshold, with the
\* reading's confidence and a valid depthInfo; in every other case
\* fallbackUsed = true and confidence is 0.5 (unreliable reading, depthInfo not
\* valid), 0.3 (the depth read threw) or 0.4 (depth API unavailable).  A
\* failing depth read yields a result, never an exception.
C16_ReportsPositioning ==
    mapperCall.op = "mapBreadboardToWorldPosition" =>
        /\ mapperCall.result.fallbackUsed = ~DepthUsed(mapperCall.reading)
        /\ ReportedAs(mapperCall.result, mapperCall.reading)

\* A reading with confidence exactly at the threshold was used.
C16_Witness ==
    /\ mapperCall.op = "mapBreadboardToWorldPosition"
    /\ mapperCall.reading.kind = "depth"
    /\ mapperCall.reading.confidence = depthConfidenceThreshold
    /\ ~mapperCall.result.fallbackUsed

(***************************************************************************)
(* Properties of the revert timer of BreadboardUIBridge.                    *)
(***************************************************************************)
\* The step in which the revert timer fires: revertToOriginalState runs.
Reverts == revertTimeout = "pending" /\ revertTimeout' = "fired"

\* The step of a stopAnalysis / of a startAnalysis.
Stops == isAnalysisActive /\ ~isAnalysisActive'

Starts == ~isAnalysisActive /\ isAnalysisActive'

CreatedOfType(events, registry, type) ==
    {i \in DOMAIN events : /\ events[i][1] = "overlayCreated"
                           /\ registry[events[i][2]].type = type}

\* The registered overlays of one type.
ActiveOfType(type) ==
    {i \in DOMAIN activeOverlays : elements[activeOverlays[i]].type = type}

\* The step that delivers one componentDetectedEvent / one circuitCompleteEvent.
DeliversComponentDetected == detectedComponentsCount' = detectedComponentsCount + 1

DeliversCircuitComplete == bridgeEvents' # <<>>

\* C21: each assistant event drives the overlays once: with the overlay and
\* the bridge both connected to the same assistant and the default settings
\* (showComponentLabels and showConnectionLines true), one
\* componentDetectedEvent creates exactly one component label overlay and one
\* circuitCompleteEvent creates exactly 4 hole highlights and 4 connection
\* lines.
C21_EventDrivesOverlaysOnce ==
    [][(showComponentLabels /\ showConnectionLines) =>
          /\ DeliversComponentDetected =>
                 /\ overlayCounter' = overlayCounter + 1
                 /\ Cardinality(CreatedOfType(overlayEvents', elements',
                                              "component_label")) = 1
          /\ DeliversCircuitComplete =>
                 /\ overlayCounter' = overlayCounter + 8
                 /\ Cardinality(CreatedOfType(overlayEvents', elements',
                                              "hole_highlight")) = 4
                 /\ Cardinality(CreatedOfType(overlayEvents', elements',
                                              "connection_line")) = 4]_vars

\* With the default settings one component was detected and the circuit was
\* completed: two labels, eight hole highlights and eight lines are registered.
C21_Witness ==
    /\ showComponentLabels /\ showConnectionLines
    /\ bridgeOps = 2
    /\ detectedComponentsCount = 1
    /\ circuitTopologyComplete
    /\ Cardinality(ActiveOfType("component_label")) = 2
    /\ Cardinality(ActiveOfType("hole_highlight")) = 8
    /\ Cardinality(ActiveOfType("connection_line")) = 8

=============================================================================
